---------------------------- MODULE Spec2Model ----------------------------
(***************************************************************************)
(* A model of the EE/GC boundary layer of the runtime:                     *)
(*   - the EE allocation context with its randomized sampling limit        *)
(*     (src/coreclr/vm/gcheaputilities.h, _ee_alloc_context), owned by one *)
(*     thread or shared by several,                                        *)
(*   - the software write watch table                                      *)
(*     (GCHeapUtilities::SoftwareWriteWatchSetDirty[Region]), marked by    *)
(*     one thread, behind its enabled flag, or by several threads,         *)
(*   - the GC heap handle (GCHeapUtilities::GetGCHeap and its callers),    *)
(*   - the return address hijack record of a thread                        *)
(*     (nativeaot/Runtime/arm64/AsmMacros.h, INLINE_THREAD_UNHIJACK), one  *)
(*     operation or one instruction at a time,                             *)
(*   - the transition frame of a helper (PUSH/POP_COOP_PINVOKE_FRAME),     *)
(*   - the flag words built and tested with the TSF_*, PTFF_* and          *)
(*     TrapThreadsFlags_* constants.                                       *)
(* Each component has its own specification over the shared variables; a   *)
(* component's specification leaves the other components' variables alone. *)
(***************************************************************************)
EXTENDS Integers, Sequences, FiniteSets, TLC

VARIABLES
    \* _ee_alloc_context
    alloc_ptr,          \* gc_alloc_context.alloc_ptr   (byte address)
    alloc_limit,        \* gc_alloc_context.alloc_limit (byte address)
    combined_limit,     \* _ee_alloc_context::combined_limit
    samplingEnabled,    \* what IsRandomizedSamplingEnabled() returns now
    handed,             \* ranges tryAllocate handed out in this window, in order
    al_last,            \* the last allocation-context operation and its inputs
    \* software write watch
    g_sw_ww_table,      \* one byte per page
    ww_last,            \* the last write watch operation and its inputs
    \* thread hijack
    m_pvHijackedReturnAddress,
    m_ppvHijackedReturnAddressLocation,
    stack,              \* return-address slots of the thread's stack
    m_ThreadStateFlags, \* TSF_* bits of the thread
    hj_last,            \* the last hijack operation and its inputs
    \* install and resolve, one load or store at a time
    installer,          \* the installing thread: position and registers
    owner,              \* the hijacked thread: position and registers
    race,               \* the slot hijacked, its original content, overlap
    \* GC heap registry
    g_pGCHeap,          \* GCHeapUtilities::g_pGCHeap
    heap,               \* state of the IGCHeap instance
    gc_caller,          \* the thread calling into GCHeapUtilities
    \* write barrier in front of the software write watch
    g_sw_ww_enabled_for_gc_heap,
    \* transition frame
    regs,               \* registers of the thread, now and at helper entry
    mem,                \* the thread's stack, now and at helper entry
    fr_last,            \* the last frame operation
    \* shared allocation context
    sh_threads,         \* allocating threads: position and registers
    \* concurrent write watch
    ww_threads,         \* marking threads, and the table a sequential run gives
    \* flag words
    flag_word,          \* the thread state, frame and trap flag words
    fl_last             \* the last flag operation

vars == << alloc_ptr, alloc_limit, combined_limit, samplingEnabled, handed,
           al_last, g_sw_ww_table, ww_last, m_pvHijackedReturnAddress,
           m_ppvHijackedReturnAddressLocation, stack, m_ThreadStateFlags,
           hj_last, installer, owner, race, g_pGCHeap, heap, gc_caller,
           g_sw_ww_enabled_for_gc_heap, regs, mem, fr_last, sh_threads,
           ww_threads, flag_word, fl_last >>

raceVars == << installer, owner, race >>
heapVars == << g_pGCHeap, heap, gc_caller >>
frameVars == << regs, mem, fr_last >>
flagVars == << flag_word, fl_last >>
\* The variables of the components that follow the first three.
extVars == << raceVars, heapVars, g_sw_ww_enabled_for_gc_heap, frameVars,
             sh_threads, ww_threads, flagVars >>

allocVars == << alloc_ptr, alloc_limit, combined_limit, samplingEnabled,
                handed, al_last >>
wwVars == << g_sw_ww_table, ww_last >>
hijackVars == << m_pvHijackedReturnAddress, m_ppvHijackedReturnAddressLocation,
                 stack, m_ThreadStateFlags, hj_last >>

nullptr == 0

Min(a, b) == IF a < b THEN a ELSE b

RECURSIVE BitAnd(_, _)
BitAnd(a, b) ==
    IF a = 0 \/ b = 0 THEN 0
    ELSE (a % 2) * (b % 2) + 2 * BitAnd(a \div 2, b \div 2)

(***************************************************************************)
(*                 Allocation context with randomized sampling             *)
(***************************************************************************)

\* const DWORD SamplingDistributionMean = (100 * 1024);
SamplingDistributionMean == 100 * 1024

\* The doubles CLRRandom::NextDouble() is let to return, in thousandths:
\* 0, 0.001, 0.01, 0.5 and 0.999, all in [0,1).
NextDouble == {0, 1, 10, 500, 999}

\* -log(1 - probability) in millionths, rounded down, for the draws above.
NegLogOneMinus(probability) ==
    CASE probability = 0   -> 0
      [] probability = 1   -> 1000
      [] probability = 10  -> 10050
      [] probability = 500 -> 693147
      [] probability = 999 -> 6907755

\* The draw with the sign of the logarithm kept: log(1 - probability) *
\* SamplingDistributionMean, which is at most zero.
ComputeGeometricRandom_NoNegation(probability) ==
    LET x == NegLogOneMinus(probability)
    IN  0 - ((x \div 1000) * SamplingDistributionMean
             + ((x % 1000) * SamplingDistributionMean) \div 1000) \div 1000

\* int threshold = (int)(-log(1 - probability) * SamplingDistributionMean);
\* the product is non-negative and below 2^31, so the cast truncates only.
\* floor(x * Mean / 10^6) is taken in two steps of 10^3, which gives the
\* same integer and keeps every intermediate product small.
ComputeGeometricRandom(probability) ==
    LET x == NegLogOneMinus(probability)
    IN  ((x \div 1000) * SamplingDistributionMean
         + ((x % 1000) * SamplingDistributionMean) \div 1000) \div 1000

\* The value UpdateCombinedLimit(samplingEnabled, pRandom) stores in
\* combined_limit for the window [ptr, limit).
UpdateCombinedLimit_NoClamp(enabled, ptr, limit, probability) ==
    IF ~enabled THEN limit ELSE ptr + ComputeGeometricRandom(probability)

UpdateCombinedLimit_FromZero(enabled, ptr, limit, probability) ==
    IF ~enabled THEN limit
    ELSE Min(ComputeGeometricRandom(probability), limit)

UpdateCombinedLimit_FromLimit(enabled, ptr, limit, probability) ==
    IF ~enabled THEN limit
    ELSE Min(limit + ComputeGeometricRandom(probability), limit)

UpdateCombinedLimit(enabled, ptr, limit, probability) ==
    IF ~enabled
    THEN limit
    ELSE LET sampling_limit == ptr + ComputeGeometricRandom(probability)
         IN  Min(sampling_limit, limit)

\* Bounds of the allocation model.
MaxAllocs == 3

WindowBases == {4096, 8192}
WindowSizes == {0, 4096, 131072}
AllocSizes == {0, 256, 3968}

NoAllocOp == [op |-> "init", size |-> 0, ok |-> FALSE, result |-> nullptr,
              ptr0 |-> nullptr, limit0 |-> nullptr, combined0 |-> nullptr,
              enabled |-> FALSE, threshold |-> 0]

\* _ee_alloc_context::init(): combined_limit = nullptr and the
\* gc_alloc_context zeroed.
InitAlloc ==
    /\ alloc_ptr = nullptr
    /\ alloc_limit = nullptr
    /\ combined_limit = nullptr
    /\ samplingEnabled \in BOOLEAN
    /\ handed = << >>
    /\ al_last = NoAllocOp

AllocOp(op, size, ok, result, probability) ==
    [op |-> op, size |-> size, ok |-> ok, result |-> result,
     ptr0 |-> alloc_ptr, limit0 |-> alloc_limit, combined0 |-> combined_limit,
     enabled |-> samplingEnabled,
     threshold |-> IF samplingEnabled THEN ComputeGeometricRandom(probability)
                   ELSE 0]

\* refill(newWindow): the slow path installs a new window and recomputes
\* combined_limit at once.
Refill(base, size, probability) ==
    /\ alloc_ptr' = base
    /\ alloc_limit' = base + size
    /\ combined_limit' =
           UpdateCombinedLimit(samplingEnabled, base, base + size, probability)
    /\ handed' = << >>
    /\ al_last' = AllocOp("refill", size, TRUE, base, probability)
    /\ UNCHANGED << samplingEnabled, wwVars, hijackVars, extVars >>

\* UpdateCombinedLimit(pRandom) on the current window (after a sampling trap).
Recompute(probability) ==
    /\ combined_limit' =
           UpdateCombinedLimit(samplingEnabled, alloc_ptr, alloc_limit,
                               probability)
    /\ al_last' = AllocOp("recompute", 0, TRUE, nullptr, probability)
    /\ UNCHANGED << alloc_ptr, alloc_limit, samplingEnabled, handed >>
    /\ UNCHANGED << wwVars, hijackVars, extVars >>

\* tryAllocate(size): the bump-pointer fast path.
TryAllocateFits_Strict(size) == alloc_ptr + size < combined_limit

TryAllocateFits(size) == alloc_ptr + size <= combined_limit

TryAllocate(size) ==
    /\ IF TryAllocateFits(size)
       THEN /\ Len(handed) < MaxAllocs
            /\ alloc_ptr' = alloc_ptr + size
            /\ handed' = Append(handed, [base |-> alloc_ptr, size |-> size])
            /\ al_last' = AllocOp("tryAllocate", size, TRUE, alloc_ptr, 0)
            /\ UNCHANGED << alloc_limit, combined_limit, samplingEnabled >>
       ELSE /\ al_last' = AllocOp("tryAllocate", size, FALSE, nullptr, 0)
            /\ UNCHANGED << alloc_ptr, alloc_limit, combined_limit,
                            samplingEnabled, handed >>
    /\ UNCHANGED << wwVars, hijackVars, extVars >>

\* The tracing session turns the allocation sampling keyword on or off:
\* IsRandomizedSamplingEnabled() reads the provider's state at each call.
SetSamplingEnabled(b) ==
    /\ b # samplingEnabled
    /\ samplingEnabled' = b
    /\ al_last' = AllocOp("toggle", 0, TRUE, nullptr, 0)
    /\ UNCHANGED << alloc_ptr, alloc_limit, combined_limit, handed >>
    /\ UNCHANGED << wwVars, hijackVars, extVars >>

NextAlloc ==
    \/ \E base \in WindowBases, size \in WindowSizes, p \in NextDouble :
           Refill(base, size, p)
    \/ \E p \in NextDouble : Recompute(p)
    \/ \E size \in AllocSizes : TryAllocate(size)
    \/ \E b \in BOOLEAN : SetSamplingEnabled(b)

(***************************************************************************)
(*                          Software write watch                           *)
(***************************************************************************)

\* SOFTWARE_WRITE_WATCH_AddressToTableByteIndexShift: a page of the model
\* is 2^AddressToTableByteIndexShift bytes.
AddressToTableByteIndexShift == 2
NumPages == 3           \* entries of g_sw_ww_table
MaxLength == 6          \* longest region passed to SetDirtyRegion

SizeofVoidPtr == 8      \* sizeof(void*) on arm64/x64
DirtySentinel == 255    \* 0xFF, and (unsigned char)~0

RECURSIVE Pow2(_)
Pow2(n) == IF n = 0 THEN 1 ELSE 2 * Pow2(n - 1)

PageSize == Pow2(AddressToTableByteIndexShift)

\* reinterpret_cast<size_t>(address) >> SOFTWARE_WRITE_WATCH_AddressToTableByteIndexShift
TableByteIndex(address) == address \div Pow2(AddressToTableByteIndexShift)

Pages == 0 .. (NumPages - 1)
\* The addresses the table covers; address != nullptr is asserted.
Addresses == 1 .. (NumPages * PageSize - 1)
\* A table byte: untouched, the sentinel, or another nonzero value.
TableBytes == {0, 1, DirtySentinel}

\* memset(&table[from], value, count)
Memset(table, from, value, count) ==
    [i \in DOMAIN table |->
        IF from <= i /\ i < from + count THEN value ELSE table[i]]

\* SoftwareWriteWatchSetDirty: the table after marking `address`.
SoftwareWriteWatchSetDirty_Invert(table, address) ==
    LET table_byte_index == TableByteIndex(address)
    IN  [table EXCEPT ![table_byte_index] =
            IF table[table_byte_index] = 0 THEN DirtySentinel ELSE 0]

SoftwareWriteWatchSetDirty_TestInverted(table, address) ==
    LET table_byte_index == TableByteIndex(address)
    IN  IF table[table_byte_index] # 0
        THEN [table EXCEPT ![table_byte_index] = DirtySentinel]
        ELSE table

SoftwareWriteWatchSetDirty(table, address) ==
    LET table_byte_index == TableByteIndex(address)
    IN  IF table[table_byte_index] = 0
        THEN [table EXCEPT ![table_byte_index] = DirtySentinel]
        ELSE table

\* SoftwareWriteWatchSetDirtyRegion: the table after marking
\* [address, address + length).
SoftwareWriteWatchSetDirtyRegion_NoMinusOne(table, address, length) ==
    LET base_index == TableByteIndex(address)
        end_index  == TableByteIndex(address + length)
    IN  Memset(table, base_index, DirtySentinel, end_index - base_index + 1)

SoftwareWriteWatchSetDirtyRegion(table, address, length) ==
    LET base_index  == TableByteIndex(address)
        end_pointer == address + length - 1
        end_index   == TableByteIndex(end_pointer)
    IN  Memset(table, base_index, DirtySentinel, end_index - base_index + 1)

NoWwOp == [op |-> "none", address |-> nullptr, length |-> 0,
           before |-> [i \in Pages |-> 0], repeat |-> FALSE]

InitWW ==
    /\ g_sw_ww_table \in [Pages -> TableBytes]
    /\ ww_last = NoWwOp

\* A write of write_size bytes at address, then SoftwareWriteWatchSetDirty.
\* The asserts: write_size <= sizeof(void*), and the write stays in its page.
SetDirty(address, write_size) ==
    /\ write_size <= SizeofVoidPtr
    /\ TableByteIndex(address) = TableByteIndex(address + (write_size - 1))
    /\ g_sw_ww_table' = SoftwareWriteWatchSetDirty(g_sw_ww_table, address)
    /\ ww_last' = [op |-> "SetDirty", address |-> address, length |-> 0,
                   before |-> g_sw_ww_table,
                   repeat |-> /\ ww_last.op = "SetDirty"
                              /\ ww_last.address = address]
    /\ UNCHANGED << allocVars, hijackVars, extVars >>

\* A bulk copy of `length` bytes to address, then
\* SoftwareWriteWatchSetDirtyRegion. The copy stays inside the tracked range.
SetDirtyRegion(address, length) ==
    /\ address + length <= NumPages * PageSize
    /\ g_sw_ww_table' =
           SoftwareWriteWatchSetDirtyRegion(g_sw_ww_table, address, length)
    /\ ww_last' = [op |-> "SetDirtyRegion", address |-> address,
                   length |-> length, before |-> g_sw_ww_table,
                   repeat |-> FALSE]
    /\ UNCHANGED << allocVars, hijackVars, extVars >>

NextWW ==
    \/ \E address \in Addresses, write_size \in 1 .. SizeofVoidPtr :
           SetDirty(address, write_size)
    \/ \E address \in Addresses, length \in 0 .. MaxLength :
           SetDirtyRegion(address, length)

(***************************************************************************)
(*                     Thread hijack / safepoint redirection               *)
(***************************************************************************)

TSF_Attached == 1
TSF_SuppressGcStress == 8
TSF_DoNotTriggerGc == 16
TSF_OnlySuppressGcStress == TSF_SuppressGcStress
TSF_SuppressGcStress__OR__TSF_DoNotTriggerGC == 24

\* Bit position for the flags above, to be used with tbz/tbnz instructions
TSF_Attached_Bit == 0
TSF_SuppressGcStress_Bit == 3
TSF_DoNotTriggerGc_Bit == 4

NumSlots == 3           \* return-address slots of the thread's stack

Slots == 1 .. NumSlots
ReturnAddresses == {101, 102}       \* real return addresses
Trampolines == {201, 202}           \* hijack trampolines
\* The flag words built from the three TSF_* bits.
ThreadFlagValues == {f \in 0 .. 31 : BitAnd(f, 6) = 0}

\* Thread::Unhijack() as INLINE_THREAD_UNHIJACK runs it on the record
\* (ret, loc) and the stack stk: the new record and stack, and the stack
\* locations stored to.
INLINE_THREAD_UNHIJACK_NoTest(ret, loc, stk) ==
    [ret |-> nullptr, loc |-> nullptr,
     stk |-> [s \in DOMAIN stk |-> IF s = loc THEN ret ELSE stk[s]],
     wrote |-> {loc}]

INLINE_THREAD_UNHIJACK_KeepsLocation(ret, loc, stk) ==
    IF ret = nullptr
    THEN [ret |-> ret, loc |-> loc, stk |-> stk, wrote |-> {}]
    ELSE [ret |-> nullptr, loc |-> loc,
          stk |-> [s \in DOMAIN stk |-> IF s = loc THEN ret ELSE stk[s]],
          wrote |-> {loc}]

INLINE_THREAD_UNHIJACK(ret, loc, stk) ==
    \* ldr trashReg1, [thread, #m_pvHijackedReturnAddress]; cbz trashReg1, 0
    IF ret = nullptr
    THEN [ret |-> ret, loc |-> loc, stk |-> stk, wrote |-> {}]
    \* ldr trashReg2, [thread, #m_ppvHijackedReturnAddressLocation]
    \* str trashReg1, [trashReg2]; str xzr, [..Location]; str xzr, [..Address]
    ELSE [ret |-> nullptr, loc |-> nullptr,
          stk |-> [s \in DOMAIN stk |-> IF s = loc THEN ret ELSE stk[s]],
          wrote |-> {loc}]

\* Whether the thread may be hijacked: neither "do not trigger GC" nor
\* "suppress GC stress" is set.
HijackEligible(flags) ==
    BitAnd(flags, TSF_SuppressGcStress__OR__TSF_DoNotTriggerGC) = 0

NoHijackOp == [op |-> "none", prev |-> "none", ok |-> FALSE, slot |-> nullptr,
               original |-> nullptr, roundtrip |-> FALSE,
               stack0 |-> [s \in Slots |-> nullptr], ret0 |-> nullptr,
               loc0 |-> nullptr, wrote |-> {}]

InitHijack ==
    /\ m_pvHijackedReturnAddress = nullptr
    /\ m_ppvHijackedReturnAddressLocation = nullptr
    /\ stack \in [Slots -> ReturnAddresses]
    /\ m_ThreadStateFlags \in ThreadFlagValues
    /\ hj_last = NoHijackOp

HijackOp(op, ok, slot, original, roundtrip, wrote) ==
    [op |-> op, prev |-> hj_last.op, ok |-> ok, slot |-> slot,
     original |-> original,
     roundtrip |-> roundtrip, stack0 |-> stack,
     ret0 |-> m_pvHijackedReturnAddress,
     loc0 |-> m_ppvHijackedReturnAddressLocation, wrote |-> wrote]

\* An install that does not look at the record: the slot's current contents
\* and location replace whatever the record held.
Install_OverwritesOutstanding(slot, trampoline) ==
    /\ IF HijackEligible(m_ThreadStateFlags)
       THEN /\ m_pvHijackedReturnAddress' = stack[slot]
            /\ m_ppvHijackedReturnAddressLocation' = slot
            /\ stack' = [stack EXCEPT ![slot] = trampoline]
            /\ hj_last' = HijackOp("install", TRUE, slot, stack[slot],
                                   FALSE, {slot})
       ELSE /\ hj_last' = HijackOp("install", FALSE, slot, stack[slot],
                                   FALSE, {})
            /\ UNCHANGED << m_pvHijackedReturnAddress,
                            m_ppvHijackedReturnAddressLocation, stack >>
    /\ UNCHANGED << m_ThreadStateFlags, allocVars, wwVars, extVars >>

\* install(thread, trampoline) on the return-address slot `slot`: rejected
\* for an ineligible thread and for a thread whose record is outstanding;
\* otherwise the slot's address and location are saved and the slot is
\* overwritten with the trampoline.
Install(slot, trampoline) ==
    /\ IF HijackEligible(m_ThreadStateFlags)
          /\ m_pvHijackedReturnAddress = nullptr
       THEN /\ m_pvHijackedReturnAddress' = stack[slot]
            /\ m_ppvHijackedReturnAddressLocation' = slot
            /\ stack' = [stack EXCEPT ![slot] = trampoline]
            /\ hj_last' = HijackOp("install", TRUE, slot, stack[slot],
                                   FALSE, {slot})
       ELSE /\ hj_last' = HijackOp("install", FALSE, slot, stack[slot],
                                   FALSE, {})
            /\ UNCHANGED << m_pvHijackedReturnAddress,
                            m_ppvHijackedReturnAddressLocation, stack >>
    /\ UNCHANGED << m_ThreadStateFlags, allocVars, wwVars, extVars >>

\* resolve(thread): the hijacked thread runs INLINE_THREAD_UNHIJACK.
Resolve ==
    LET r == INLINE_THREAD_UNHIJACK(m_pvHijackedReturnAddress,
                                    m_ppvHijackedReturnAddressLocation, stack)
        afterInstall == hj_last.op = "install" /\ hj_last.ok
    IN  /\ m_pvHijackedReturnAddress' = r.ret
        /\ m_ppvHijackedReturnAddressLocation' = r.loc
        /\ stack' = r.stk
        /\ hj_last' = HijackOp("resolve", TRUE,
                               IF afterInstall THEN hj_last.slot ELSE nullptr,
                               IF afterInstall THEN hj_last.original
                               ELSE nullptr,
                               afterInstall, r.wrote)
        /\ UNCHANGED << m_ThreadStateFlags, allocVars, wwVars, extVars >>

NextHijack ==
    \/ \E slot \in Slots, trampoline \in Trampolines :
           Install(slot, trampoline)
    \/ Resolve

(***************************************************************************)
(*          Install and resolve, one load or store at a time               *)
(***************************************************************************)

MaxUnhijacks == 1       \* defensive Thread::Unhijack() calls of the owner

InstallerPcs == {"idle", "saveAddress", "saveLocation", "overwriteSlot",
                 "done"}
UnhijackPcs == {"ldrAddress", "cbz", "ldrLocation", "strSlot", "clrLocation",
                "clrAddress"}

\* One instruction of INLINE_THREAD_UNHIJACK at position pc, with trashReg1
\* = r1 and trashReg2 = r2, on the record (ret, loc) and the stack stk.
\* Position "end" is the label 0 that closes the macro; a store through a
\* trashReg2 that is no stack location faults.
UnhijackStep_StoresLocation(pc, r1, r2, ret, loc, stk) ==
    CASE pc = "ldrAddress" ->
            [pc |-> "cbz", r1 |-> ret, r2 |-> r2, ret |-> ret, loc |-> loc,
             stk |-> stk]
      [] pc = "cbz" ->
            [pc |-> IF r1 = 0 THEN "end" ELSE "ldrLocation", r1 |-> r1,
             r2 |-> r2, ret |-> ret, loc |-> loc, stk |-> stk]
      [] pc = "ldrLocation" ->
            [pc |-> "strSlot", r1 |-> r1, r2 |-> loc, ret |-> ret,
             loc |-> loc, stk |-> stk]
      [] pc = "strSlot" ->
            IF r2 \in DOMAIN stk
            THEN [pc |-> "clrLocation", r1 |-> r1, r2 |-> r2, ret |-> ret,
                  loc |-> loc, stk |-> [stk EXCEPT ![r2] = r2]]
            ELSE [pc |-> "fault", r1 |-> r1, r2 |-> r2, ret |-> ret,
                  loc |-> loc, stk |-> stk]
      [] pc = "clrLocation" ->
            [pc |-> "clrAddress", r1 |-> r1, r2 |-> r2, ret |-> ret,
             loc |-> 0, stk |-> stk]
      [] pc = "clrAddress" ->
            [pc |-> "end", r1 |-> r1, r2 |-> r2, ret |-> 0, loc |-> loc,
             stk |-> stk]

UnhijackStep_KeepsAddress(pc, r1, r2, ret, loc, stk) ==
    CASE pc = "ldrAddress" ->
            [pc |-> "cbz", r1 |-> ret, r2 |-> r2, ret |-> ret, loc |-> loc,
             stk |-> stk]
      [] pc = "cbz" ->
            [pc |-> IF r1 = 0 THEN "end" ELSE "ldrLocation", r1 |-> r1,
             r2 |-> r2, ret |-> ret, loc |-> loc, stk |-> stk]
      [] pc = "ldrLocation" ->
            [pc |-> "strSlot", r1 |-> r1, r2 |-> loc, ret |-> ret,
             loc |-> loc, stk |-> stk]
      [] pc = "strSlot" ->
            IF r2 \in DOMAIN stk
            THEN [pc |-> "clrLocation", r1 |-> r1, r2 |-> r2, ret |-> ret,
                  loc |-> loc, stk |-> [stk EXCEPT ![r2] = r1]]
            ELSE [pc |-> "fault", r1 |-> r1, r2 |-> r2, ret |-> ret,
                  loc |-> loc, stk |-> stk]
      [] pc = "clrLocation" ->
            [pc |-> "clrAddress", r1 |-> r1, r2 |-> r2, ret |-> ret,
             loc |-> 0, stk |-> stk]
      [] pc = "clrAddress" ->
            [pc |-> "end", r1 |-> r1, r2 |-> r2, ret |-> ret, loc |-> loc,
             stk |-> stk]

UnhijackStep(pc, r1, r2, ret, loc, stk) ==
    \* ldr trashReg1, [thread, #OFFSETOF__Thread__m_pvHijackedReturnAddress]
    CASE pc = "ldrAddress" ->
            [pc |-> "cbz", r1 |-> ret, r2 |-> r2, ret |-> ret, loc |-> loc,
             stk |-> stk]
    \* cbz trashReg1, %ft0
      [] pc = "cbz" ->
            [pc |-> IF r1 = 0 THEN "end" ELSE "ldrLocation", r1 |-> r1,
             r2 |-> r2, ret |-> ret, loc |-> loc, stk |-> stk]
    \* ldr trashReg2, [thread, #..m_ppvHijackedReturnAddressLocation]
      [] pc = "ldrLocation" ->
            [pc |-> "strSlot", r1 |-> r1, r2 |-> loc, ret |-> ret,
             loc |-> loc, stk |-> stk]
    \* str trashReg1, [trashReg2]
      [] pc = "strSlot" ->
            IF r2 \in DOMAIN stk
            THEN [pc |-> "clrLocation", r1 |-> r1, r2 |-> r2, ret |-> ret,
                  loc |-> loc, stk |-> [stk EXCEPT ![r2] = r1]]
            ELSE [pc |-> "fault", r1 |-> r1, r2 |-> r2, ret |-> ret,
                  loc |-> loc, stk |-> stk]
    \* str xzr, [thread, #..m_ppvHijackedReturnAddressLocation]
      [] pc = "clrLocation" ->
            [pc |-> "clrAddress", r1 |-> r1, r2 |-> r2, ret |-> ret,
             loc |-> 0, stk |-> stk]
    \* str xzr, [thread, #..m_pvHijackedReturnAddress]
      [] pc = "clrAddress" ->
            [pc |-> "end", r1 |-> r1, r2 |-> r2, ret |-> 0, loc |-> loc,
             stk |-> stk]

InstallerAtRest ==
    [pc |-> "idle", trampoline |-> nullptr, addr |-> nullptr, ok |-> FALSE]
OwnerAtRest ==
    [pc |-> "running", trashReg1 |-> 0, trashReg2 |-> 0, via |-> "none",
     resumedAt |-> nullptr, unhijacks |-> 0]

\* The thread is about to return through race.slot, which holds the real
\* return address race.original; no record is outstanding.
InitRace ==
    /\ installer = InstallerAtRest
    /\ owner = OwnerAtRest
    /\ \E slot \in Slots :
           race = [slot |-> slot, original |-> stack[slot], overlap |-> FALSE]

InstallerMid ==
    installer.pc \in {"saveAddress", "saveLocation", "overwriteSlot"}
OwnerMid == owner.pc \in (UnhijackPcs \ {"ldrAddress"})

\* Whether install and resolve have ever been between their first load and
\* their last store at the same time.
Overlap(inst, own) ==
    \/ race.overlap
    \/ /\ inst.pc \in {"saveAddress", "saveLocation", "overwriteSlot"}
       /\ own.pc \in (UnhijackPcs \ {"ldrAddress"})

RaceStep(inst, own) ==
    /\ installer' = inst
    /\ owner' = own
    /\ race' = [race EXCEPT !.overlap = Overlap(inst, own)]
    /\ UNCHANGED << m_ThreadStateFlags, hj_last, allocVars, wwVars, heapVars,
                    g_sw_ww_enabled_for_gc_heap, frameVars, sh_threads,
                    ww_threads, flagVars >>

\* install, first step: the caller's policy check, then the load of the
\* thread's current return-address slot.
InstallerLoad(trampoline) ==
    /\ installer.pc = "idle"
    /\ IF HijackEligible(m_ThreadStateFlags)
       THEN RaceStep([installer EXCEPT !.pc = "saveAddress",
                          !.trampoline = trampoline,
                          !.addr = stack[race.slot], !.ok = TRUE], owner)
       ELSE RaceStep([installer EXCEPT !.pc = "done"], owner)
    /\ UNCHANGED << m_pvHijackedReturnAddress,
                    m_ppvHijackedReturnAddressLocation, stack >>

\* install: save the address into the record.
InstallerSaveAddress ==
    /\ installer.pc = "saveAddress"
    /\ m_pvHijackedReturnAddress' = installer.addr
    /\ RaceStep([installer EXCEPT !.pc = "saveLocation"], owner)
    /\ UNCHANGED << m_ppvHijackedReturnAddressLocation, stack >>

\* install: save the slot's location into the record.
InstallerSaveLocation ==
    /\ installer.pc = "saveLocation"
    /\ m_ppvHijackedReturnAddressLocation' = race.slot
    /\ RaceStep([installer EXCEPT !.pc = "overwriteSlot"], owner)
    /\ UNCHANGED << m_pvHijackedReturnAddress, stack >>

\* install: InterlockedOperationBarrier (dmb ish; memory is sequentially
\* consistent here), then overwrite the slot with the trampoline.
InstallerOverwriteSlot ==
    /\ installer.pc = "overwriteSlot"
    /\ stack' = [stack EXCEPT ![race.slot] = installer.trampoline]
    /\ RaceStep([installer EXCEPT !.pc = "done"], owner)
    /\ UNCHANGED << m_pvHijackedReturnAddress,
                    m_ppvHijackedReturnAddressLocation >>

\* The thread unhijacks itself defensively: it enters INLINE_THREAD_UNHIJACK
\* from a helper, not from the trampoline.
OwnerUnhijack ==
    /\ owner.pc = "running"
    /\ owner.unhijacks < MaxUnhijacks
    /\ RaceStep(installer, [owner EXCEPT !.pc = "ldrAddress",
                                !.via = "defensive",
                                !.unhijacks = owner.unhijacks + 1])
    /\ UNCHANGED << m_pvHijackedReturnAddress,
                    m_ppvHijackedReturnAddressLocation, stack >>

\* The thread returns through its slot: into the trampoline, which runs
\* INLINE_THREAD_UNHIJACK, or to the address the slot holds.
OwnerReturn ==
    /\ owner.pc = "running"
    /\ IF stack[race.slot] \in Trampolines
       THEN RaceStep(installer, [owner EXCEPT !.pc = "ldrAddress",
                                     !.via = "trampoline"])
       ELSE RaceStep(installer, [owner EXCEPT !.pc = "resumed",
                                     !.resumedAt = stack[race.slot]])
    /\ UNCHANGED << m_pvHijackedReturnAddress,
                    m_ppvHijackedReturnAddressLocation, stack >>

\* One instruction of INLINE_THREAD_UNHIJACK on the thread itself.
OwnerUnhijackStep ==
    /\ owner.pc \in UnhijackPcs
    /\ LET r == UnhijackStep(owner.pc, owner.trashReg1, owner.trashReg2,
                             m_pvHijackedReturnAddress,
                             m_ppvHijackedReturnAddressLocation, stack)
       IN  /\ m_pvHijackedReturnAddress' = r.ret
           /\ m_ppvHijackedReturnAddressLocation' = r.loc
           /\ stack' = r.stk
           /\ RaceStep(installer, [owner EXCEPT !.pc = r.pc,
                                       !.trashReg1 = r.r1,
                                       !.trashReg2 = r.r2])

\* After the macro: a defensive caller goes on running; the trampoline jumps
\* to the address its slot now holds.
OwnerExit ==
    /\ owner.pc = "end"
    /\ IF owner.via = "trampoline"
       THEN RaceStep(installer, [owner EXCEPT !.pc = "resumed",
                                     !.resumedAt = stack[race.slot]])
       ELSE RaceStep(installer, [owner EXCEPT !.pc = "running"])
    /\ UNCHANGED << m_pvHijackedReturnAddress,
                    m_ppvHijackedReturnAddressLocation, stack >>

NextRace ==
    \/ \E trampoline \in Trampolines : InstallerLoad(trampoline)
    \/ InstallerSaveAddress
    \/ InstallerSaveLocation
    \/ InstallerOverwriteSlot
    \/ OwnerUnhijack
    \/ OwnerReturn
    \/ OwnerUnhijackStep
    \/ OwnerExit

(***************************************************************************)
(*                       GC heap handle and registry                       *)
(***************************************************************************)

\* The address of the IGCHeap instance LoadAndInitialize() publishes.
TheGCHeap == 4096

\* What the heap itself knows of a collection: none, one that has started
\* suspending the runtime, one in progress.
HeapStates == {"idle", "started", "inProgress"}

\* IGCHeap::IsGCInProgressHelper(bConsiderGCStart) on a heap in state h.
IsGCInProgressHelper(h, bConsiderGCStart) ==
    h = "inProgress" \/ (bConsiderGCStart /\ h = "started")

\* return g_pGCHeap != nullptr;
IsGCHeapInitialized_Always(pGCHeap) == TRUE

IsGCHeapInitialized(pGCHeap) == pGCHeap # nullptr

\* assert(g_pGCHeap != nullptr); return g_pGCHeap;
GetGCHeap(pGCHeap) == [asserted |-> pGCHeap # nullptr, pHeap |-> pGCHeap]

NumGcCallers == 2       \* threads calling into GCHeapUtilities

GcCallers == 1 .. NumGcCallers

GcCallerAtRest ==
    [pc |-> "idle", op |-> "none", bConsiderGCStart |-> FALSE,
     initialized |-> FALSE, pHeap |-> nullptr, result |-> FALSE,
     touched |-> FALSE]

\* Before LoadAndInitialize(): no heap, no caller inside GCHeapUtilities.
InitHeap ==
    /\ g_pGCHeap = nullptr
    /\ heap = "idle"
    /\ gc_caller = [t \in GcCallers |-> GcCallerAtRest]

HeapStep(t, caller) ==
    /\ gc_caller' = [gc_caller EXCEPT ![t] = caller]
    /\ UNCHANGED << allocVars, wwVars, hijackVars, raceVars,
                    g_sw_ww_enabled_for_gc_heap, frameVars, sh_threads,
                    ww_threads, flagVars >>

\* GCHeapUtilities::LoadAndInitialize(): publishes the heap, once.
LoadAndInitialize ==
    /\ g_pGCHeap = nullptr
    /\ g_pGCHeap' = TheGCHeap
    /\ UNCHANGED << heap, gc_caller >>
    /\ UNCHANGED << allocVars, wwVars, hijackVars, raceVars,
                    g_sw_ww_enabled_for_gc_heap, frameVars, sh_threads,
                    ww_threads, flagVars >>

\* The heap moves through a collection; only an initialized heap collects.
GcAdvance ==
    /\ g_pGCHeap # nullptr
    /\ heap' = CASE heap = "idle" -> "started"
                 [] heap = "started" -> "inProgress"
                 [] heap = "inProgress" -> "idle"
    /\ UNCHANGED << g_pGCHeap, gc_caller >>
    /\ UNCHANGED << allocVars, wwVars, hijackVars, raceVars,
                    g_sw_ww_enabled_for_gc_heap, frameVars, sh_threads,
                    ww_threads, flagVars >>

\* Thread t calls IsGCInProgress(b) or WaitForGCCompletion(b).
CallGCHeapUtilities(t, op, b) ==
    /\ gc_caller[t].pc \in {"idle", "returned"}
    /\ HeapStep(t, [GcCallerAtRest EXCEPT !.pc = "IsGCHeapInitialized",
                        !.op = op, !.bConsiderGCStart = b])
    /\ UNCHANGED << g_pGCHeap, heap >>

\* IsGCHeapInitialized() ? ... : false   /   if (IsGCHeapInitialized()) ...
StepIsGCHeapInitialized(t) ==
    /\ gc_caller[t].pc = "IsGCHeapInitialized"
    /\ LET i == IsGCHeapInitialized(g_pGCHeap)
       IN  HeapStep(t, [gc_caller[t] EXCEPT !.initialized = i,
                            !.pc = IF i THEN "GetGCHeap" ELSE "returned"])
    /\ UNCHANGED << g_pGCHeap, heap >>

\* GetGCHeap(): the assertion, then the load of g_pGCHeap.
StepGetGCHeap(t) ==
    /\ gc_caller[t].pc = "GetGCHeap"
    /\ LET g == GetGCHeap(g_pGCHeap)
       IN  HeapStep(t, [gc_caller[t] EXCEPT !.pHeap = g.pHeap,
                            !.pc = IF g.asserted THEN "callHeap"
                                   ELSE "assertFailed"])
    /\ UNCHANGED << g_pGCHeap, heap >>

\* ->IsGCInProgressHelper(bConsiderGCStart) returns the heap's state;
\* ->WaitUntilGCComplete(bConsiderGCStart) enters the heap and blocks.
StepCallHeap(t) ==
    /\ gc_caller[t].pc = "callHeap"
    /\ IF gc_caller[t].op = "IsGCInProgress"
       THEN HeapStep(t, [gc_caller[t] EXCEPT !.touched = TRUE,
                             !.pc = "returned",
                             !.result = IsGCInProgressHelper(heap,
                                            gc_caller[t].bConsiderGCStart)])
       ELSE HeapStep(t, [gc_caller[t] EXCEPT !.touched = TRUE,
                             !.pc = "WaitUntilGCComplete"])
    /\ UNCHANGED << g_pGCHeap, heap >>

\* WaitUntilGCComplete returns once no collection is in progress.
StepWaitUntilGCComplete(t) ==
    /\ gc_caller[t].pc = "WaitUntilGCComplete"
    /\ ~IsGCInProgressHelper(heap, gc_caller[t].bConsiderGCStart)
    /\ HeapStep(t, [gc_caller[t] EXCEPT !.pc = "returned"])
    /\ UNCHANGED << g_pGCHeap, heap >>

NextHeap ==
    \/ LoadAndInitialize
    \/ GcAdvance
    \/ \E t \in GcCallers, b \in BOOLEAN,
          op \in {"IsGCInProgress", "WaitForGCCompletion"} :
           CallGCHeapUtilities(t, op, b)
    \/ \E t \in GcCallers : StepIsGCHeapInitialized(t)
    \/ \E t \in GcCallers : StepGetGCHeap(t)
    \/ \E t \in GcCallers : StepCallHeap(t)
    \/ \E t \in GcCallers : StepWaitUntilGCComplete(t)

(***************************************************************************)
(*            Writes in front of the software write watch                  *)
(***************************************************************************)

\* return g_sw_ww_enabled_for_gc_heap;
SoftwareWriteWatchIsEnabled_Always(enabled) == TRUE

SoftwareWriteWatchIsEnabled(enabled) == enabled

\* The addresses and lengths written when the table is behind the flag or
\* marked by several threads: the first two bytes of every page, and
\* lengths that are empty, stay in the page, or reach the next page.
MarkedAddresses == {a \in Addresses : a % PageSize <= 1}
MarkedLengths == {0, 1, PageSize + 1}

InitGate == g_sw_ww_enabled_for_gc_heap \in BOOLEAN

\* A write of at most a pointer: the table is marked only when the write
\* watch is enabled.
WriteReference(address, write_size) ==
    /\ write_size <= SizeofVoidPtr
    /\ TableByteIndex(address) = TableByteIndex(address + (write_size - 1))
    /\ g_sw_ww_table' =
           IF SoftwareWriteWatchIsEnabled(g_sw_ww_enabled_for_gc_heap)
           THEN SoftwareWriteWatchSetDirty(g_sw_ww_table, address)
           ELSE g_sw_ww_table
    /\ ww_last' = [op |-> "SetDirty", address |-> address, length |-> 0,
                   before |-> g_sw_ww_table, repeat |-> FALSE]
    /\ UNCHANGED << g_sw_ww_enabled_for_gc_heap, allocVars, hijackVars,
                    raceVars, heapVars, frameVars, sh_threads, ww_threads, flagVars >>

\* A bulk copy: the table is marked only when the write watch is enabled.
BulkCopy(address, length) ==
    /\ address + length <= NumPages * PageSize
    /\ g_sw_ww_table' =
           IF SoftwareWriteWatchIsEnabled(g_sw_ww_enabled_for_gc_heap)
           THEN SoftwareWriteWatchSetDirtyRegion(g_sw_ww_table, address,
                                                 length)
           ELSE g_sw_ww_table
    /\ ww_last' = [op |-> "SetDirtyRegion", address |-> address,
                   length |-> length, before |-> g_sw_ww_table,
                   repeat |-> FALSE]
    /\ UNCHANGED << g_sw_ww_enabled_for_gc_heap, allocVars, hijackVars,
                    raceVars, heapVars, frameVars, sh_threads, ww_threads, flagVars >>

\* The collector turns the write watch on or off.
SetWriteWatchEnabled(b) ==
    /\ b # g_sw_ww_enabled_for_gc_heap
    /\ g_sw_ww_enabled_for_gc_heap' = b
    /\ UNCHANGED << wwVars, allocVars, hijackVars, raceVars, heapVars,
                    frameVars, sh_threads, ww_threads, flagVars >>

NextGate ==
    \/ \E address \in MarkedAddresses, write_size \in {1, SizeofVoidPtr} :
           WriteReference(address, write_size)
    \/ \E address \in MarkedAddresses, length \in MarkedLengths :
           BulkCopy(address, length)
    \/ \E b \in BOOLEAN : SetWriteWatchEnabled(b)

(***************************************************************************)
(*                     Transition frame of a helper                        *)
(***************************************************************************)

\* A flag word is the set of the positions of its one bits; bit 0 is the
\* least significant.  Hex32 reads the eight hexadecimal digits of an equ.
Hex32(digits) ==
    {b \in 0 .. 31 : (digits[8 - (b \div 4)] \div Pow2(b % 4)) % 2 = 1}

\* The 64-bit sum of two flag words.
RECURSIVE WordAddFrom(_, _, _, _)
WordAddFrom(a, b, i, carry) ==
    IF i = 64 THEN {}
    ELSE LET s == (IF i \in a THEN 1 ELSE 0) + (IF i \in b THEN 1 ELSE 0)
                      + carry
         IN  (IF s % 2 = 1 THEN {i} ELSE {}) \cup
                 WordAddFrom(a, b, i + 1, s \div 2)

WordAdd(a, b) == WordAddFrom(a, b, 0, 0)

\* A flag defined by the upper 32 bits of the 64-bit flag word.
UpperWord(bits) == {b + 32 : b \in bits}

\* The number a register holds for a flag word, and back.
RECURSIVE WordValue(_)
WordValue(bits) ==
    IF bits = {} THEN 0
    ELSE LET b == CHOOSE x \in bits : TRUE
         IN  Pow2(b) + WordValue(bits \ {b})

WordBits(n) == {i \in 0 .. 30 : (n \div Pow2(i)) % 2 = 1}

PTFF_SAVE_X19 == Hex32(<< 0, 0, 0, 0, 0, 0, 0, 1 >>)
PTFF_SAVE_X20 == Hex32(<< 0, 0, 0, 0, 0, 0, 0, 2 >>)
PTFF_SAVE_X21 == Hex32(<< 0, 0, 0, 0, 0, 0, 0, 4 >>)
PTFF_SAVE_X22 == Hex32(<< 0, 0, 0, 0, 0, 0, 0, 8 >>)
PTFF_SAVE_X23 == Hex32(<< 0, 0, 0, 0, 0, 0, 1, 0 >>)
PTFF_SAVE_X24 == Hex32(<< 0, 0, 0, 0, 0, 0, 2, 0 >>)
PTFF_SAVE_X25 == Hex32(<< 0, 0, 0, 0, 0, 0, 4, 0 >>)
PTFF_SAVE_X26 == Hex32(<< 0, 0, 0, 0, 0, 0, 8, 0 >>)
PTFF_SAVE_X27 == Hex32(<< 0, 0, 0, 0, 0, 1, 0, 0 >>)
PTFF_SAVE_X28 == Hex32(<< 0, 0, 0, 0, 0, 2, 0, 0 >>)
PTFF_SAVE_SP == Hex32(<< 0, 0, 0, 0, 0, 4, 0, 0 >>)
PTFF_SAVE_ALL_PRESERVED == Hex32(<< 0, 0, 0, 0, 0, 3, 15, 15 >>)
PTFF_SAVE_X0 == Hex32(<< 0, 0, 0, 0, 0, 8, 0, 0 >>)
PTFF_SAVE_X1 == Hex32(<< 0, 0, 0, 0, 1, 0, 0, 0 >>)
PTFF_SAVE_X2 == Hex32(<< 0, 0, 0, 0, 2, 0, 0, 0 >>)
PTFF_SAVE_X3 == Hex32(<< 0, 0, 0, 0, 4, 0, 0, 0 >>)
PTFF_SAVE_X4 == Hex32(<< 0, 0, 0, 0, 8, 0, 0, 0 >>)
PTFF_SAVE_X5 == Hex32(<< 0, 0, 0, 1, 0, 0, 0, 0 >>)
PTFF_SAVE_X6 == Hex32(<< 0, 0, 0, 2, 0, 0, 0, 0 >>)
PTFF_SAVE_X7 == Hex32(<< 0, 0, 0, 4, 0, 0, 0, 0 >>)
PTFF_SAVE_X8 == Hex32(<< 0, 0, 0, 8, 0, 0, 0, 0 >>)
PTFF_SAVE_X9 == Hex32(<< 0, 0, 1, 0, 0, 0, 0, 0 >>)
PTFF_SAVE_X10 == Hex32(<< 0, 0, 2, 0, 0, 0, 0, 0 >>)
PTFF_SAVE_X11 == Hex32(<< 0, 0, 4, 0, 0, 0, 0, 0 >>)
PTFF_SAVE_X12 == Hex32(<< 0, 0, 8, 0, 0, 0, 0, 0 >>)
PTFF_SAVE_X13 == Hex32(<< 0, 1, 0, 0, 0, 0, 0, 0 >>)
PTFF_SAVE_X14 == Hex32(<< 0, 2, 0, 0, 0, 0, 0, 0 >>)
PTFF_SAVE_X15 == Hex32(<< 0, 4, 0, 0, 0, 0, 0, 0 >>)
PTFF_SAVE_X16 == Hex32(<< 0, 8, 0, 0, 0, 0, 0, 0 >>)
PTFF_SAVE_X17 == Hex32(<< 1, 0, 0, 0, 0, 0, 0, 0 >>)
PTFF_SAVE_X18 == Hex32(<< 2, 0, 0, 0, 0, 0, 0, 0 >>)
PTFF_SAVE_ALL_SCRATCH == Hex32(<< 3, 15, 15, 15, 15, 8, 0, 0 >>)
PTFF_SAVE_FP == Hex32(<< 4, 0, 0, 0, 0, 0, 0, 0 >>)
PTFF_SAVE_LR == Hex32(<< 8, 0, 0, 0, 0, 0, 0, 0 >>)
PTFF_X0_IS_GCREF_HI == Hex32(<< 0, 0, 0, 0, 0, 0, 0, 1 >>)
PTFF_X0_IS_BYREF_HI == Hex32(<< 0, 0, 0, 0, 0, 0, 0, 2 >>)
PTFF_X1_IS_GCREF_HI == Hex32(<< 0, 0, 0, 0, 0, 0, 0, 4 >>)
PTFF_X1_IS_BYREF_HI == Hex32(<< 0, 0, 0, 0, 0, 0, 0, 8 >>)
\* The thread abort flag one bit higher than PTFF_THREAD_ABORT_BIT names.
PTFF_THREAD_ABORT_HI_NextBit == Hex32(<< 0, 0, 0, 0, 0, 0, 2, 0 >>)

PTFF_THREAD_ABORT_HI == Hex32(<< 0, 0, 0, 0, 0, 0, 1, 0 >>)
PTFF_THREAD_ABORT_BIT == 36

\* DEFAULT_FRAME_SAVE_FLAGS equ PTFF_SAVE_ALL_PRESERVED + PTFF_SAVE_SP
DEFAULT_FRAME_SAVE_FLAGS_WithX0 ==
    WordAdd(WordAdd(PTFF_SAVE_ALL_PRESERVED, PTFF_SAVE_SP), PTFF_SAVE_X0)

DEFAULT_FRAME_SAVE_FLAGS == WordAdd(PTFF_SAVE_ALL_PRESERVED, PTFF_SAVE_SP)

NumPatterns == 2        \* register contents a helper can be entered with

PreservedRegs == {"x19", "x20", "x21", "x22", "x23", "x24", "x25", "x26",
                  "x27", "x28"}
TrashRegs == {"x9", "x10"}
Registers == PreservedRegs \cup TrashRegs \cup {"fp", "lr", "sp"}

RegNumber(r) ==
    CASE r = "x9" -> 9 [] r = "x10" -> 10 [] r = "x19" -> 19
      [] r = "x20" -> 20 [] r = "x21" -> 21 [] r = "x22" -> 22
      [] r = "x23" -> 23 [] r = "x24" -> 24 [] r = "x25" -> 25
      [] r = "x26" -> 26 [] r = "x27" -> 27 [] r = "x28" -> 28
      [] r = "fp" -> 29 [] r = "lr" -> 30 [] r = "sp" -> 31

\* Register contents number k: every register holds a value of its own.
RegPattern(k, sp) ==
    [r \in Registers |-> IF r = "sp" THEN sp ELSE 100 * k + RegNumber(r)]

\* The stack: 8-byte words at StackBase .. StackBase + 0xF8; a helper is
\* entered with sp at one of StackTops.
StackBase == 32 * 128
StackTops == {StackBase + 128, StackBase + 256}
StackWords == {StackBase + 8 * i : i \in 0 .. 31}
\* What the words of the stack below sp hold before they are written.
tls_CurrentThread == 36864
StackGarbage == {0, 48879, tls_CurrentThread}

\* stp r1, r2, [sp, #offset]
PROLOG_SAVE_REG_PAIR(m, sp, v1, v2, offset) ==
    [m EXCEPT ![sp + offset] = v1, ![sp + offset + 8] = v2]

\* PUSH_COOP_PINVOKE_FRAME trashReg on the registers r and the memory m:
\* the registers and the memory after the macro.
PUSH_COOP_PINVOKE_FRAME_StoresThread(r, m, trashReg) ==
    LET sp == r["sp"] - 128
        m1 == PROLOG_SAVE_REG_PAIR(m, sp, r["fp"], r["lr"], 0)
        m2 == PROLOG_SAVE_REG_PAIR(m1, sp, r["x19"], r["x20"], 32)
        m3 == PROLOG_SAVE_REG_PAIR(m2, sp, r["x21"], r["x22"], 48)
        m4 == PROLOG_SAVE_REG_PAIR(m3, sp, r["x23"], r["x24"], 64)
        m5 == PROLOG_SAVE_REG_PAIR(m4, sp, r["x25"], r["x26"], 80)
        m6 == PROLOG_SAVE_REG_PAIR(m5, sp, r["x27"], r["x28"], 96)
        m7 == [m6 EXCEPT ![sp + 112] = sp + 128]
        m8 == [m7 EXCEPT ![sp + 24] = WordValue(DEFAULT_FRAME_SAVE_FLAGS),
                         ![sp + 16] = tls_CurrentThread]
    IN  [regs |-> [r EXCEPT !["sp"] = sp, ![trashReg] = sp], mem |-> m8]

PUSH_COOP_PINVOKE_FRAME(r, m, trashReg) ==
    \* PROLOG_SAVE_REG_PAIR fp, lr, #-0x80!
    LET sp == r["sp"] - 128
        m1 == PROLOG_SAVE_REG_PAIR(m, sp, r["fp"], r["lr"], 0)
    \* 0x10 bytes reserved for Thread* and flags
    \* PROLOG_SAVE_REG_PAIR x19, x20, #0x20 ... x27, x28, #0x60
        m2 == PROLOG_SAVE_REG_PAIR(m1, sp, r["x19"], r["x20"], 32)
        m3 == PROLOG_SAVE_REG_PAIR(m2, sp, r["x21"], r["x22"], 48)
        m4 == PROLOG_SAVE_REG_PAIR(m3, sp, r["x23"], r["x24"], 64)
        m5 == PROLOG_SAVE_REG_PAIR(m4, sp, r["x25"], r["x26"], 80)
        m6 == PROLOG_SAVE_REG_PAIR(m5, sp, r["x27"], r["x28"], 96)
    \* add trashReg, sp, #0x80 ; str trashReg, [sp, #0x70]
        m7 == [m6 EXCEPT ![sp + 112] = sp + 128]
    \* mov trashReg, #DEFAULT_FRAME_SAVE_FLAGS ; str trashReg, [sp, #0x18]
        m8 == [m7 EXCEPT ![sp + 24] = WordValue(DEFAULT_FRAME_SAVE_FLAGS)]
    \* mov trashReg, sp
    IN  [regs |-> [r EXCEPT !["sp"] = sp, ![trashReg] = sp], mem |-> m8]

\* POP_COOP_PINVOKE_FRAME on the registers r and the memory m: the
\* registers after the macro.
POP_COOP_PINVOKE_FRAME_SwapsFpLr(r, m) ==
    LET sp == r["sp"]
    IN  [r EXCEPT !["x19"] = m[sp + 32], !["x20"] = m[sp + 40],
                  !["x21"] = m[sp + 48], !["x22"] = m[sp + 56],
                  !["x23"] = m[sp + 64], !["x24"] = m[sp + 72],
                  !["x25"] = m[sp + 80], !["x26"] = m[sp + 88],
                  !["x27"] = m[sp + 96], !["x28"] = m[sp + 104],
                  !["fp"] = m[sp + 8], !["lr"] = m[sp],
                  !["sp"] = sp + 128]

POP_COOP_PINVOKE_FRAME(r, m) ==
    LET sp == r["sp"]
    \* EPILOG_RESTORE_REG_PAIR x19, x20, #0x20 ... x27, x28, #0x60
    IN  [r EXCEPT !["x19"] = m[sp + 32], !["x20"] = m[sp + 40],
                  !["x21"] = m[sp + 48], !["x22"] = m[sp + 56],
                  !["x23"] = m[sp + 64], !["x24"] = m[sp + 72],
                  !["x25"] = m[sp + 80], !["x26"] = m[sp + 88],
                  !["x27"] = m[sp + 96], !["x28"] = m[sp + 104],
    \* EPILOG_RESTORE_REG_PAIR fp, lr, #0x80!
                  !["fp"] = m[sp], !["lr"] = m[sp + 8],
                  !["sp"] = sp + 128]

NoFrameOp == [op |-> "none", trashReg |-> "x9", immediate |-> FALSE]

\* A thread in managed code about to call a helper: registers of one of the
\* patterns, sp at one of the stack tops, the stack below sp unwritten.
InitFrame ==
    /\ \E k \in 1 .. NumPatterns, sp \in StackTops :
           regs = [now |-> RegPattern(k, sp), entry |-> RegPattern(k, sp)]
    /\ \E g \in StackGarbage :
           mem = [now |-> [a \in StackWords |-> g],
                  entry |-> [a \in StackWords |-> g]]
    /\ fr_last = NoFrameOp

FrameStep ==
    UNCHANGED << allocVars, wwVars, hijackVars, raceVars, heapVars,
                 g_sw_ww_enabled_for_gc_heap, sh_threads, ww_threads, flagVars >>

\* The helper's prolog.
HelperEntry(trashReg) ==
    /\ fr_last.op \in {"none", "pop"}
    /\ LET f == PUSH_COOP_PINVOKE_FRAME(regs.now, mem.now, trashReg)
       IN  /\ regs' = [now |-> f.regs, entry |-> regs.now]
           /\ mem' = [now |-> f.mem, entry |-> mem.now]
    /\ fr_last' = [op |-> "push", trashReg |-> trashReg, immediate |-> FALSE]
    /\ FrameStep

\* The helper's body: it leaves sp and the frame alone and every other
\* register with other contents.
HelperBody(k) ==
    /\ fr_last.op = "push"
    /\ regs' = [regs EXCEPT !.now = RegPattern(k, regs.now["sp"])]
    /\ fr_last' = [fr_last EXCEPT !.op = "body"]
    /\ UNCHANGED mem
    /\ FrameStep

\* The helper's epilog.
HelperExit ==
    /\ fr_last.op \in {"push", "body"}
    /\ regs' = [regs EXCEPT !.now = POP_COOP_PINVOKE_FRAME(regs.now, mem.now)]
    /\ fr_last' = [fr_last EXCEPT !.op = "pop",
                                  !.immediate = (fr_last.op = "push")]
    /\ UNCHANGED mem
    /\ FrameStep

\* Managed code runs between two helpers.
ManagedCode(k, sp) ==
    /\ fr_last.op = "pop"
    /\ regs' = [regs EXCEPT !.now = RegPattern(k, sp)]
    /\ fr_last' = NoFrameOp
    /\ UNCHANGED mem
    /\ FrameStep

NextFrame ==
    \/ \E trashReg \in TrashRegs : HelperEntry(trashReg)
    \/ \E k \in 1 .. NumPatterns : HelperBody(k)
    \/ HelperExit
    \/ \E k \in 1 .. NumPatterns, sp \in StackTops : ManagedCode(k, sp)

(***************************************************************************)
(*          The process-wide allocation context, shared by threads         *)
(***************************************************************************)

NumAllocThreads == 2    \* threads allocating from g_global_ee_alloc_context
MaxClaims == 2          \* ranges claimed from one window of the shared context

AllocThreads == 1 .. NumAllocThreads

\* static bool UseThreadAllocationContexts(): when false, every thread
\* allocates from the one shared context.
UseThreadAllocationContexts(s_useThreadAllocationContexts) ==
    s_useThreadAllocationContexts

\* Compare-and-swap of the bump pointer: it stores only when the pointer
\* still holds the value the thread read.
CompareAndSwap_Blind(current, expected) == TRUE

CompareAndSwap(current, expected) == current = expected

AllocThreadAtRest ==
    [pc |-> "idle", size |-> 0, old |-> nullptr, ok |-> FALSE,
     lost |-> FALSE]

\* The shared context after a refill, no thread inside tryAllocate.
InitShared ==
    /\ samplingEnabled \in BOOLEAN
    /\ \E base \in WindowBases, size \in WindowSizes, p \in NextDouble :
           /\ alloc_ptr = base
           /\ alloc_limit = base + size
           /\ combined_limit = UpdateCombinedLimit(samplingEnabled, base,
                                                   base + size, p)
    /\ handed = << >>
    /\ al_last = NoAllocOp
    /\ sh_threads = [t \in AllocThreads |-> AllocThreadAtRest]

SharedStep(t, thread) ==
    /\ sh_threads' = [sh_threads EXCEPT ![t] = thread]
    /\ UNCHANGED << alloc_limit, combined_limit, samplingEnabled, al_last,
                    wwVars, hijackVars, raceVars, heapVars,
                    g_sw_ww_enabled_for_gc_heap, frameVars, ww_threads, flagVars >>

\* Thread t enters tryAllocate(size) on the shared context.
SharedTryAllocate(t, size) ==
    /\ ~UseThreadAllocationContexts(FALSE)
    /\ sh_threads[t].pc \in {"idle", "done"}
    /\ Len(handed) < MaxClaims
    /\ SharedStep(t, [AllocThreadAtRest EXCEPT !.pc = "load", !.size = size])
    /\ UNCHANGED << alloc_ptr, handed >>

\* The thread loads the bump pointer and tests it against combined_limit.
SharedLoad(t) ==
    /\ sh_threads[t].pc = "load"
    /\ IF alloc_ptr + sh_threads[t].size <= combined_limit
       THEN SharedStep(t, [sh_threads[t] EXCEPT !.pc = "cas",
                               !.old = alloc_ptr])
       ELSE SharedStep(t, [sh_threads[t] EXCEPT !.pc = "done",
                               !.old = alloc_ptr])
    /\ UNCHANGED << alloc_ptr, handed >>

\* The thread claims [old, old + size) with one compare-and-swap; a thread
\* that loses the race does not get the range.
SharedCompareAndSwap(t) ==
    /\ sh_threads[t].pc = "cas"
    /\ IF CompareAndSwap(alloc_ptr, sh_threads[t].old)
       THEN /\ alloc_ptr' = sh_threads[t].old + sh_threads[t].size
            /\ handed' = Append(handed, [base |-> sh_threads[t].old,
                                         size |-> sh_threads[t].size])
            /\ SharedStep(t, [sh_threads[t] EXCEPT !.pc = "done",
                                  !.ok = TRUE])
       ELSE /\ SharedStep(t, [sh_threads[t] EXCEPT !.pc = "done",
                                  !.lost = TRUE])
            /\ UNCHANGED << alloc_ptr, handed >>

NextShared ==
    \/ \E t \in AllocThreads, size \in AllocSizes : SharedTryAllocate(t, size)
    \/ \E t \in AllocThreads : SharedLoad(t)
    \/ \E t \in AllocThreads : SharedCompareAndSwap(t)

(***************************************************************************)
(*            The software write watch, marked by several threads          *)
(***************************************************************************)

NumMarkers == 2         \* threads marking the table

Markers == 1 .. NumMarkers

\* if (*table_address == 0): whether SoftwareWriteWatchSetDirty stores
\* after it has read the byte `value`.
SetDirtyStores_Never(value) == FALSE

SetDirtyStores(value) == value = 0

DirtySet(table) == {i \in DOMAIN table : table[i] # 0}

MarkerAtRest == [pc |-> "idle", index |-> 0, end |-> 0]

InitMarkers ==
    /\ g_sw_ww_table \in [Pages -> TableBytes]
    /\ ww_last = NoWwOp
    /\ ww_threads = [thread |-> [t \in Markers |-> MarkerAtRest],
                     sequential |-> g_sw_ww_table]

MarkerStep(t, marker, sequential) ==
    /\ ww_threads' = [thread |-> [ww_threads.thread EXCEPT ![t] = marker],
                      sequential |-> sequential]
    /\ UNCHANGED << ww_last, allocVars, hijackVars, raceVars, heapVars,
                    g_sw_ww_enabled_for_gc_heap, frameVars, sh_threads,
                    flagVars >>

\* Thread t enters SoftwareWriteWatchSetDirty(address, write_size) and
\* computes table_byte_index.
MarkerSetDirty(t, address) ==
    /\ ww_threads.thread[t].pc = "idle"
    /\ MarkerStep(t, [pc |-> "test", index |-> TableByteIndex(address),
                      end |-> TableByteIndex(address)],
                  SoftwareWriteWatchSetDirty(ww_threads.sequential, address))
    /\ UNCHANGED g_sw_ww_table

\* if (*table_address == 0)
MarkerTest(t) ==
    /\ ww_threads.thread[t].pc = "test"
    /\ MarkerStep(t,
           IF SetDirtyStores(g_sw_ww_table[ww_threads.thread[t].index])
           THEN [ww_threads.thread[t] EXCEPT !.pc = "store"]
           ELSE MarkerAtRest,
           ww_threads.sequential)
    /\ UNCHANGED g_sw_ww_table

\* *table_address = 0xFF;
MarkerStore(t) ==
    /\ ww_threads.thread[t].pc = "store"
    /\ g_sw_ww_table' = [g_sw_ww_table EXCEPT
                            ![ww_threads.thread[t].index] = DirtySentinel]
    /\ MarkerStep(t, MarkerAtRest, ww_threads.sequential)

\* Thread t enters SoftwareWriteWatchSetDirtyRegion(address, length) and
\* computes base_index and end_index.
MarkerSetDirtyRegion(t, address, length) ==
    /\ ww_threads.thread[t].pc = "idle"
    /\ address + length <= NumPages * PageSize
    /\ MarkerStep(t, [pc |-> "fill", index |-> TableByteIndex(address),
                      end |-> TableByteIndex(address + length - 1)],
                  SoftwareWriteWatchSetDirtyRegion(ww_threads.sequential,
                                                   address, length))
    /\ UNCHANGED g_sw_ww_table

\* memset(&g_sw_ww_table[base_index], ~0, end_index - base_index + 1), one
\* byte at a time.
MarkerFill(t) ==
    /\ ww_threads.thread[t].pc = "fill"
    /\ IF ww_threads.thread[t].index <= ww_threads.thread[t].end
       THEN /\ g_sw_ww_table' = Memset(g_sw_ww_table,
                                       ww_threads.thread[t].index,
                                       DirtySentinel, 1)
            /\ MarkerStep(t, [ww_threads.thread[t] EXCEPT
                                 !.index = ww_threads.thread[t].index + 1],
                          ww_threads.sequential)
       ELSE /\ MarkerStep(t, MarkerAtRest, ww_threads.sequential)
            /\ UNCHANGED g_sw_ww_table

NextMarkers ==
    \/ \E t \in Markers, address \in MarkedAddresses :
           MarkerSetDirty(t, address)
    \/ \E t \in Markers : MarkerTest(t)
    \/ \E t \in Markers : MarkerStore(t)
    \/ \E t \in Markers, address \in MarkedAddresses,
          length \in MarkedLengths :
           MarkerSetDirtyRegion(t, address, length)
    \/ \E t \in Markers : MarkerFill(t)

(***************************************************************************)
(*              Flag words: masks and the bit positions of tbz/tbnz        *)
(***************************************************************************)

\* These must match the TrapThreadsFlags enum
TrapThreadsFlags_None == 0
TrapThreadsFlags_AbortInProgress == 1
TrapThreadsFlags_TrapThreads == 2

\* Bit position for the flags above, to be used with tbz / tbnz instructions
TrapThreadsFlags_AbortInProgress_Bit == 0
TrapThreadsFlags_TrapThreads_Bit == 1

MaxFlagSets == 1        \* masks or'ed into the flag words of a run

\* The three flag words: Thread::m_ThreadStateFlags, a transition frame's
\* 64-bit PInvokeTransitionFrameFlags and RhpTrapThreads.
FlagWords == {"TSF", "PTFF", "TrapThreadsFlags"}

\* The one-register flags of the low PTFF word, in the order of their equ's.
PTFF_SAVE_Flags ==
    << PTFF_SAVE_X19, PTFF_SAVE_X20, PTFF_SAVE_X21, PTFF_SAVE_X22,
       PTFF_SAVE_X23, PTFF_SAVE_X24, PTFF_SAVE_X25, PTFF_SAVE_X26,
       PTFF_SAVE_X27, PTFF_SAVE_X28, PTFF_SAVE_SP,
       PTFF_SAVE_X0, PTFF_SAVE_X1, PTFF_SAVE_X2, PTFF_SAVE_X3, PTFF_SAVE_X4,
       PTFF_SAVE_X5, PTFF_SAVE_X6, PTFF_SAVE_X7, PTFF_SAVE_X8, PTFF_SAVE_X9,
       PTFF_SAVE_X10, PTFF_SAVE_X11, PTFF_SAVE_X12, PTFF_SAVE_X13,
       PTFF_SAVE_X14, PTFF_SAVE_X15, PTFF_SAVE_X16, PTFF_SAVE_X17,
       PTFF_SAVE_X18, PTFF_SAVE_FP, PTFF_SAVE_LR >>

\* The flags of the upper PTFF word, as their equ's give them.
PTFF_HI_Flags ==
    << PTFF_X0_IS_GCREF_HI, PTFF_X0_IS_BYREF_HI, PTFF_X1_IS_GCREF_HI,
       PTFF_X1_IS_BYREF_HI, PTFF_THREAD_ABORT_HI >>

\* The masks the header defines for each word.
FlagMasks(w) ==
    CASE w = "TSF" ->
             {WordBits(TSF_Attached), WordBits(TSF_SuppressGcStress),
              WordBits(TSF_DoNotTriggerGc),
              WordBits(TSF_SuppressGcStress__OR__TSF_DoNotTriggerGC)}
      [] w = "PTFF" ->
             {PTFF_SAVE_Flags[i] : i \in DOMAIN PTFF_SAVE_Flags}
                 \cup {UpperWord(PTFF_HI_Flags[i]) : i \in DOMAIN PTFF_HI_Flags}
                 \cup {PTFF_SAVE_ALL_PRESERVED, PTFF_SAVE_ALL_SCRATCH}
      [] w = "TrapThreadsFlags" ->
             {WordBits(TrapThreadsFlags_None),
              WordBits(TrapThreadsFlags_AbortInProgress),
              WordBits(TrapThreadsFlags_TrapThreads)}

\* The flags that have a *_Bit (or *_BIT) position next to their mask.
BitTests(w) ==
    CASE w = "TSF" ->
             {[mask |-> WordBits(TSF_Attached), bit |-> TSF_Attached_Bit],
              [mask |-> WordBits(TSF_SuppressGcStress),
               bit |-> TSF_SuppressGcStress_Bit],
              [mask |-> WordBits(TSF_DoNotTriggerGc),
               bit |-> TSF_DoNotTriggerGc_Bit]}
      [] w = "PTFF" ->
             {[mask |-> UpperWord(PTFF_THREAD_ABORT_HI),
               bit |-> PTFF_THREAD_ABORT_BIT]}
      [] w = "TrapThreadsFlags" ->
             {[mask |-> WordBits(TrapThreadsFlags_AbortInProgress),
               bit |-> TrapThreadsFlags_AbortInProgress_Bit],
              [mask |-> WordBits(TrapThreadsFlags_TrapThreads),
               bit |-> TrapThreadsFlags_TrapThreads_Bit]}

\* tst word, #mask ; b.ne : taken when some bit of the mask is set.
Tst(word, mask) == word \cap mask # {}

\* tbnz word, #bit : taken when that bit is set.
Tbnz(word, bit) == bit \in word

NoFlagOp == [op |-> "none", word |-> "TSF", mask |-> {}, bit |-> 0,
             byMask |-> FALSE, byBit |-> FALSE, sets |-> 0]

\* A detached thread, traps off, and a frame that is either blank or was
\* just pushed with DEFAULT_FRAME_SAVE_FLAGS.
InitFlags ==
    /\ flag_word \in {[w \in FlagWords |->
                          IF w = "PTFF" THEN frame ELSE {}] :
                          frame \in {{}, DEFAULT_FRAME_SAVE_FLAGS}}
    /\ fl_last = NoFlagOp

\* orr word, word, #mask
SetFlag(w, mask) ==
    /\ fl_last.sets < MaxFlagSets
    /\ flag_word' = [flag_word EXCEPT ![w] = @ \cup mask]
    /\ fl_last' = [NoFlagOp EXCEPT !.op = "set", !.word = w, !.mask = mask,
                                   !.sets = fl_last.sets + 1]
    /\ UNCHANGED << allocVars, wwVars, hijackVars, raceVars, heapVars,
                    g_sw_ww_enabled_for_gc_heap, frameVars, sh_threads,
                    ww_threads >>

\* A consumer tests one flag of the word, by its mask and by its position.
TestFlag(w, t) ==
    /\ fl_last' = [op |-> "test", word |-> w, mask |-> t.mask, bit |-> t.bit,
                   byMask |-> Tst(flag_word[w], t.mask),
                   byBit |-> Tbnz(flag_word[w], t.bit),
                   sets |-> fl_last.sets]
    /\ UNCHANGED << flag_word, allocVars, wwVars, hijackVars, raceVars,
                    heapVars, g_sw_ww_enabled_for_gc_heap, frameVars,
                    sh_threads, ww_threads >>

NextFlags ==
    \/ \E w \in FlagWords : \E mask \in FlagMasks(w) : SetFlag(w, mask)
    \/ \E w \in FlagWords : \E t \in BitTests(w) : TestFlag(w, t)

(***************************************************************************)
(*                             Specifications                              *)
(***************************************************************************)

\* The other components' variables, at rest.
AllocAtRest ==
    /\ alloc_ptr = nullptr /\ alloc_limit = nullptr
    /\ combined_limit = nullptr /\ samplingEnabled = FALSE
    /\ handed = << >> /\ al_last = NoAllocOp

WWAtRest == g_sw_ww_table = [i \in Pages |-> 0] /\ ww_last = NoWwOp

HijackAtRest ==
    /\ m_pvHijackedReturnAddress = nullptr
    /\ m_ppvHijackedReturnAddressLocation = nullptr
    /\ stack = [s \in Slots |-> 101] /\ m_ThreadStateFlags = 0
    /\ hj_last = NoHijackOp

RaceAtRest ==
    /\ installer = InstallerAtRest /\ owner = OwnerAtRest
    /\ race = [slot |-> 1, original |-> nullptr, overlap |-> FALSE]

HeapAtRest ==
    /\ g_pGCHeap = nullptr /\ heap = "idle"
    /\ gc_caller = [t \in GcCallers |-> GcCallerAtRest]

GateAtRest == g_sw_ww_enabled_for_gc_heap = TRUE

FrameAtRest ==
    /\ regs = [now |-> RegPattern(1, StackBase + 128),
               entry |-> RegPattern(1, StackBase + 128)]
    /\ mem = [now |-> [a \in StackWords |-> 0],
              entry |-> [a \in StackWords |-> 0]]
    /\ fr_last = NoFrameOp

SharedAtRest == sh_threads = [t \in AllocThreads |-> AllocThreadAtRest]

WWThreadsAtRest ==
    ww_threads = [thread |-> [t \in Markers |-> MarkerAtRest],
                  sequential |-> [i \in Pages |-> 0]]

FlagsAtRest ==
    /\ flag_word = [w \in FlagWords |-> {}]
    /\ fl_last = NoFlagOp

Init == InitAlloc /\ InitWW /\ InitHijack /\ InitRace /\ InitHeap
            /\ InitGate /\ InitFrame
            /\ SharedAtRest /\ WWThreadsAtRest /\ InitFlags

Next == NextAlloc \/ NextWW \/ NextHijack \/ NextRace \/ NextHeap
            \/ NextGate \/ NextFrame
            \/ NextShared \/ NextMarkers \/ NextFlags

\* The components side by side.
Spec == Init /\ [][Next]_vars

\* The allocation context alone.
AllocInit ==
    /\ InitAlloc /\ WWAtRest /\ HijackAtRest /\ RaceAtRest /\ HeapAtRest
    /\ GateAtRest /\ FrameAtRest /\ SharedAtRest /\ WWThreadsAtRest
    /\ FlagsAtRest

SpecAlloc == AllocInit /\ [][NextAlloc]_vars

\* The write watch table alone.
WWInit ==
    /\ InitWW /\ AllocAtRest /\ HijackAtRest /\ RaceAtRest /\ HeapAtRest
    /\ GateAtRest /\ FrameAtRest /\ SharedAtRest /\ WWThreadsAtRest
    /\ FlagsAtRest

SpecWW == WWInit /\ [][NextWW]_vars

\* One thread's hijack record alone.
HijackInit ==
    /\ InitHijack /\ AllocAtRest /\ WWAtRest /\ RaceAtRest /\ HeapAtRest
    /\ GateAtRest /\ FrameAtRest /\ SharedAtRest /\ WWThreadsAtRest
    /\ FlagsAtRest

SpecHijack == HijackInit /\ [][NextHijack]_vars

\* One thread's hijack record, install and resolve one instruction at a time.
HijackStepsInit ==
    /\ InitHijack /\ InitRace /\ AllocAtRest /\ WWAtRest /\ HeapAtRest
    /\ GateAtRest /\ FrameAtRest /\ SharedAtRest /\ WWThreadsAtRest
    /\ FlagsAtRest

SpecHijackSteps == HijackStepsInit /\ [][NextRace]_vars

\* The heap registry and one caller of GCHeapUtilities.
HeapInit ==
    /\ InitHeap /\ AllocAtRest /\ WWAtRest /\ HijackAtRest /\ RaceAtRest
    /\ GateAtRest /\ FrameAtRest /\ SharedAtRest /\ WWThreadsAtRest
    /\ FlagsAtRest

SpecHeap == HeapInit /\ [][NextHeap]_vars

\* The write watch table behind the enabled flag.
GateInit ==
    /\ InitWW /\ InitGate /\ AllocAtRest /\ HijackAtRest /\ RaceAtRest
    /\ HeapAtRest /\ FrameAtRest /\ SharedAtRest /\ WWThreadsAtRest
    /\ FlagsAtRest

SpecWWGate == GateInit /\ [][NextGate]_vars

\* One thread entering and leaving helpers that build a transition frame.
FrameInit ==
    /\ InitFrame /\ AllocAtRest /\ WWAtRest /\ HijackAtRest /\ RaceAtRest
    /\ HeapAtRest /\ GateAtRest /\ SharedAtRest /\ WWThreadsAtRest
    /\ FlagsAtRest

SpecFrame == FrameInit /\ [][NextFrame]_vars

\* Threads racing on the shared allocation context.
SharedInit ==
    /\ InitShared /\ WWAtRest /\ HijackAtRest /\ RaceAtRest /\ HeapAtRest
    /\ GateAtRest /\ FrameAtRest /\ WWThreadsAtRest
    /\ FlagsAtRest

SpecShared == SharedInit /\ [][NextShared]_vars

\* Threads marking the write watch table at the same time.
MarkersInit ==
    /\ InitMarkers /\ GateAtRest /\ AllocAtRest /\ HijackAtRest
    /\ RaceAtRest /\ HeapAtRest /\ FrameAtRest /\ SharedAtRest
    /\ FlagsAtRest

SpecMarkers == MarkersInit /\ [][NextMarkers]_vars

\* The flag words alone.
FlagsInit ==
    /\ InitFlags /\ AllocAtRest /\ WWAtRest /\ HijackAtRest /\ RaceAtRest
    /\ HeapAtRest /\ GateAtRest /\ FrameAtRest /\ SharedAtRest
    /\ WWThreadsAtRest

SpecFlags == FlagsInit /\ [][NextFlags]_vars

(***************************************************************************)
(*                     Claims on the allocation context                    *)
(***************************************************************************)

\* C1: for a valid window (alloc_ptr <= alloc_limit), after every refill and
\* after every recomputation of the sampling limit, with sampling enabled or
\* disabled and for every draw, combined_limit <= alloc_limit.
C1_CombinedLimitAtMostAllocLimit ==
    (al_last.op \in {"refill", "recompute"} /\ alloc_ptr <= alloc_limit)
        => combined_limit <= alloc_limit

\* A recomputation with sampling enabled that put the sampling limit inside
\* the window, after an earlier draw had been clamped to the window's end.
C1_Witness ==
    /\ al_last.op = "recompute" /\ al_last.enabled
    /\ al_last.combined0 = alloc_limit
    /\ al_last.threshold > 0
    /\ combined_limit < alloc_limit

\* C2: whenever sampling is disabled, combined_limit = alloc_limit, whatever
\* combined_limit held before (in every reachable state).
C2_DisabledImpliesAllocLimit ==
    ~samplingEnabled => combined_limit = alloc_limit

\* C3: within one window the ranges tryAllocate returned are pairwise
\* disjoint, and alloc_ptr is never past combined_limit.
C3_NoOverlapNotPastLimit ==
    /\ \A i, j \in 1 .. Len(handed) :
           i < j => \/ handed[i].base + handed[i].size <= handed[j].base
                    \/ handed[j].base + handed[j].size <= handed[i].base
    /\ alloc_ptr <= combined_limit

\* Three non-empty ranges handed out of one window, the last one ending
\* before the sampling limit.
C3_Witness ==
    /\ Len(handed) = 3
    /\ \A i \in 1 .. Len(handed) : handed[i].size > 0
    /\ al_last.op = "tryAllocate" /\ al_last.ok
    /\ combined_limit < alloc_limit

\* C4: tryAllocate(size) succeeds exactly when alloc_ptr + size <=
\* combined_limit; it then returns the prior alloc_ptr and advances alloc_ptr
\* by size; otherwise it fails and changes nothing.
C4_TryAllocateContract ==
    al_last.op = "tryAllocate" =>
        /\ al_last.ok <=> (al_last.ptr0 + al_last.size <= al_last.combined0)
        /\ al_last.ok => /\ al_last.result = al_last.ptr0
                         /\ alloc_ptr = al_last.ptr0 + al_last.size
        /\ ~al_last.ok => alloc_ptr = al_last.ptr0
        /\ alloc_limit = al_last.limit0
        /\ combined_limit = al_last.combined0

\* The scenario: window [0x1000, 0x2000), sampling disabled;
\* tryAllocate(0x100) returned 0x1000, then tryAllocate(0xF80) failed at
\* alloc_ptr = 0x1100.
C4_Witness ==
    /\ al_last.op = "tryAllocate" /\ ~al_last.ok /\ al_last.size = 3968
    /\ ~samplingEnabled
    /\ handed = << [base |-> 4096, size |-> 256] >>
    /\ alloc_ptr = 4352 /\ alloc_limit = 8192 /\ combined_limit = 8192

\* C14: with sampling enabled and a draw that gives the threshold T, a
\* recomputation (after a refill too) leaves combined_limit =
\* min(alloc_ptr + T, alloc_limit); with T = 0 it leaves combined_limit =
\* alloc_ptr, and a tryAllocate of nonzero size that finds combined_limit =
\* alloc_ptr takes the slow path.
C14_SamplingLimitIsMinOfDrawAndLimit ==
    /\ (al_last.op \in {"refill", "recompute"} /\ al_last.enabled)
           => /\ combined_limit
                     = Min(alloc_ptr + al_last.threshold, alloc_limit)
              /\ al_last.threshold = 0
                     => /\ combined_limit = alloc_ptr
                        /\ \A size \in AllocSizes \ {0} :
                               ~TryAllocateFits(size)
    /\ (al_last.op = "tryAllocate" /\ al_last.size > 0
           /\ al_last.combined0 = al_last.ptr0)
           => ~al_last.ok

\* With sampling enabled, a draw of 0 has put combined_limit at alloc_ptr
\* inside a non-empty window.
C14_Witness ==
    /\ al_last.op = "recompute" /\ al_last.enabled
    /\ al_last.threshold = 0
    /\ combined_limit = alloc_ptr /\ alloc_ptr < alloc_limit
    /\ Len(handed) > 0

\* C21: the threshold ComputeGeometricRandom draws is never negative, so
\* after every recomputation of the sampling limit (a refill included) on a
\* valid window (alloc_ptr <= alloc_limit) the context has
\* alloc_ptr <= combined_limit <= alloc_limit: the remaining unsampled
\* budget combined_limit - alloc_ptr is never negative.
C21_BudgetNeverNegative ==
    /\ \A probability \in NextDouble :
           ComputeGeometricRandom(probability) >= 0
    /\ al_last.threshold >= 0
    /\ (al_last.op \in {"refill", "recompute"} /\ alloc_ptr <= alloc_limit)
           => /\ alloc_ptr <= combined_limit
              /\ combined_limit <= alloc_limit
              /\ combined_limit - alloc_ptr >= 0
              /\ al_last.enabled
                     => combined_limit - alloc_ptr
                            = Min(al_last.threshold, alloc_limit - alloc_ptr)

\* A refill with sampling enabled whose positive draw left a positive budget
\* that ends strictly inside the new window.
C21_Witness ==
    /\ al_last.op = "refill" /\ al_last.enabled
    /\ al_last.threshold > 0
    /\ alloc_ptr < combined_limit /\ combined_limit < alloc_limit
    /\ combined_limit - alloc_ptr = al_last.threshold

(***************************************************************************)
(*                     Claims on the software write watch                  *)
(***************************************************************************)

\* C5: markDirty is idempotent: marking an address a second time leaves the
\* table as the first marking left it, for every table and every address.
C5_SetDirtyIdempotent ==
    ww_last.op = "SetDirty" =>
        /\ SoftwareWriteWatchSetDirty(g_sw_ww_table, ww_last.address)
               = g_sw_ww_table
        /\ ww_last.repeat => g_sw_ww_table = ww_last.before

\* The same address marked twice in a row, in a table that also holds an
\* untouched entry and a nonzero entry other than the sentinel.
C5_Witness ==
    /\ ww_last.op = "SetDirty" /\ ww_last.repeat
    /\ TableByteIndex(ww_last.address) = 1
    /\ g_sw_ww_table = [i \in Pages |->
                           IF i = 1 THEN DirtySentinel ELSE IF i = 0 THEN 1
                           ELSE 0]

\* Whether page i holds a byte of [address, address + length).
PageIntersects(i, address, length) ==
    \E a \in address .. (address + length - 1) : TableByteIndex(a) = i

\* C6: markDirtyRange(addr, len) sets to the sentinel exactly the entries of
\* the pages that intersect [addr, addr + len) and changes no other entry,
\* for every address and every length, len = 0 included.
C6_ExactlyIntersectingPages ==
    ww_last.op = "SetDirtyRegion" =>
        \A i \in Pages :
            g_sw_ww_table[i] =
                IF PageIntersects(i, ww_last.address, ww_last.length)
                THEN DirtySentinel ELSE ww_last.before[i]

\* C6 as amended: for len >= 1 exactly the intersecting pages are set; for
\* len = 0 nothing is set when addr is the first byte of a page, and the
\* entry of addr's page is set when it is not.
C6_IntersectingPagesOrOwnPage ==
    ww_last.op = "SetDirtyRegion" =>
        LET own == TableByteIndex(ww_last.address)
            touched ==
                IF ww_last.length = 0
                THEN IF ww_last.address % PageSize = 0 THEN {} ELSE {own}
                ELSE {i \in Pages : PageIntersects(i, ww_last.address,
                                                   ww_last.length)}
        IN  \A i \in Pages :
                g_sw_ww_table[i] =
                    IF i \in touched THEN DirtySentinel ELSE ww_last.before[i]

\* A region that starts inside page 0 and ends with the last byte of page 1,
\* on a clean table: entries 0 and 1 are set and entry 2 stays zero.
C6_Witness ==
    /\ ww_last.op = "SetDirtyRegion"
    /\ ww_last.address = PageSize - 2 /\ ww_last.length = PageSize + 2
    /\ ww_last.before = [i \in Pages |-> 0]
    /\ g_sw_ww_table = [i \in Pages |-> IF i <= 1 THEN DirtySentinel ELSE 0]

\* The last operation was markDirtyRange on a non-empty range inside one page.
OnePageRegion ==
    /\ ww_last.op = "SetDirtyRegion"
    /\ ww_last.length >= 1
    /\ TableByteIndex(ww_last.address)
           = TableByteIndex(ww_last.address + ww_last.length - 1)

\* C7: for every table, markDirtyRange over one page leaves the table that
\* one markDirty on an address of that page leaves.
C7_OnePageRegionEqualsSetDirty ==
    OnePageRegion =>
        \A a \in Addresses :
            TableByteIndex(a) = TableByteIndex(ww_last.address) =>
                g_sw_ww_table = SoftwareWriteWatchSetDirty(ww_last.before, a)

\* C7 as amended: the two leave the page dirty and agree on every other
\* entry; they leave the same table when the page's entry was zero or the
\* sentinel, and otherwise markDirtyRange has stored the sentinel where
\* markDirty keeps the old nonzero value.
C7_OnePageRegionSameDirtySet ==
    OnePageRegion =>
        \A a \in Addresses :
            TableByteIndex(a) = TableByteIndex(ww_last.address) =>
                LET pg == TableByteIndex(a)
                    t == SoftwareWriteWatchSetDirty(ww_last.before, a)
                IN  /\ \A i \in Pages \ {pg} : g_sw_ww_table[i] = t[i]
                    /\ g_sw_ww_table[pg] = DirtySentinel
                    /\ t[pg] = IF ww_last.before[pg] = 0 THEN DirtySentinel
                               ELSE ww_last.before[pg]
                    /\ ww_last.before[pg] \in {0, DirtySentinel}
                           => g_sw_ww_table = t

\* markDirtyRange over the whole of page 1, whose entry was zero.
C7_Witness ==
    /\ OnePageRegion
    /\ ww_last.address = PageSize /\ ww_last.length = PageSize
    /\ ww_last.before[1] = 0
    /\ g_sw_ww_table[1] = DirtySentinel

(***************************************************************************)
(*                        Claims on the thread hijack                      *)
(***************************************************************************)

\* C8: hijack round trip: after install(t, tramp) followed by resolve(t) the
\* stack slot holds the original return address again and both fields of
\* the thread's hijack record are cleared.
C8_HijackRoundTrip ==
    (hj_last.op = "resolve" /\ hj_last.roundtrip) =>
        /\ stack[hj_last.slot] = hj_last.original
        /\ stack = [hj_last.stack0 EXCEPT ![hj_last.slot] = hj_last.original]
        /\ m_pvHijackedReturnAddress = nullptr
        /\ m_ppvHijackedReturnAddressLocation = nullptr

\* resolve ran right after an accepted install, on a slot that held the
\* trampoline.
C8_Witness ==
    /\ hj_last.op = "resolve" /\ hj_last.roundtrip
    /\ hj_last.stack0[hj_last.slot] \in Trampolines
    /\ hj_last.ret0 \in ReturnAddresses
    /\ hj_last.loc0 = hj_last.slot

\* C9: install is rejected when the thread's flags include
\* TSF_DoNotTriggerGc: no hijack record is created and the return-address
\* slot is left unchanged.
C9_InstallRejectedWhenDoNotTriggerGc ==
    (hj_last.op = "install"
     /\ BitAnd(m_ThreadStateFlags, TSF_DoNotTriggerGc) # 0) =>
        /\ ~hj_last.ok
        /\ m_pvHijackedReturnAddress = nullptr
        /\ m_ppvHijackedReturnAddressLocation = nullptr
        /\ stack = hj_last.stack0
        /\ \A s \in Slots : stack[s] \in ReturnAddresses

\* install was tried on an attached thread with only "do not trigger GC" set.
C9_Witness ==
    /\ hj_last.op = "install" /\ ~hj_last.ok
    /\ m_ThreadStateFlags = TSF_Attached + TSF_DoNotTriggerGc

\* C10: resolve on a thread with no hijack record is a no-op: it stores to
\* no stack slot and leaves both record fields as they were, so resolving
\* again after the first resolve has no further effect.
C10_ResolveWithoutRecordIsNoOp ==
    (hj_last.op = "resolve" /\ hj_last.ret0 = nullptr) =>
        /\ hj_last.wrote = {}
        /\ stack = hj_last.stack0
        /\ m_pvHijackedReturnAddress = hj_last.ret0
        /\ m_ppvHijackedReturnAddressLocation = hj_last.loc0

\* resolve ran a second time in a row, the record being empty.
C10_Witness ==
    /\ hj_last.op = "resolve" /\ hj_last.prev = "resolve"
    /\ hj_last.ret0 = nullptr /\ hj_last.loc0 = nullptr

\* The return address the thread is to use for `slot`: the saved one while
\* the record covers the slot, the slot's contents otherwise.
RealReturnAddress(slot) ==
    IF m_pvHijackedReturnAddress # nullptr
          /\ m_ppvHijackedReturnAddressLocation = slot
    THEN m_pvHijackedReturnAddress
    ELSE stack[slot]

RecordExists ==
    m_pvHijackedReturnAddress # nullptr
        \/ m_ppvHijackedReturnAddressLocation # nullptr
SlotHoldsTrampoline == stack[race.slot] \in Trampolines

\* C11: in every reachable state, the states between the individual loads
\* and stores of install and of resolve included, the hijack record is
\* non-empty if and only if the stack slot holds the trampoline address.
C11_RecordIffTrampolineEverywhere == RecordExists <=> SlotHoldsTrampoline

\* C11, amended: in every state in which neither install nor resolve is
\* between its first load and its last store, and none has overlapped the
\* other, the record is non-empty if and only if the slot holds the
\* trampoline address.
C11_RecordIffTrampolineAtRest ==
    (~InstallerMid /\ ~OwnerMid /\ ~race.overlap)
        => (RecordExists <=> SlotHoldsTrampoline)

\* Install has completed and the thread has not returned yet: the record
\* and the trampoline are both in place.
C11_Witness ==
    /\ installer.pc = "done" /\ installer.ok
    /\ owner.pc = "running" /\ ~race.overlap
    /\ RecordExists /\ SlotHoldsTrampoline

\* Where the thread goes on after its return, and what resolve wrote back.
OwnerResumesAtOriginal ==
    /\ owner.pc = "resumed" => owner.resumedAt = race.original
    /\ owner.pc = "strSlot" =>
           /\ owner.trashReg1 = race.original
           /\ owner.trashReg2 = race.slot
    /\ owner.pc # "fault"

\* C20: with install on an installer thread and resolve on the owning
\* thread and no mutex between them, under every interleaving of their
\* loads and stores the owning thread resumes at its original return
\* address: it never goes on at the trampoline with an empty record and
\* never restores another value than the original return address.
C20_EveryInterleavingResumesAtOriginal == OwnerResumesAtOriginal

\* C20, amended: under every interleaving in which resolve is never
\* between its first load and its last store while install is between its
\* load and its last store, as is the case of every resolve entered from
\* the trampoline, the owning thread resumes at its original return
\* address, finds the record complete and restores the original value.
C20_ResumesAtOriginalWithoutOverlap ==
    ~race.overlap => OwnerResumesAtOriginal

\* The thread returned into the trampoline of a completed install, resolve
\* restored the slot and the thread resumed at its original return address.
C20_Witness ==
    /\ installer.pc = "done" /\ installer.ok
    /\ owner.pc = "resumed" /\ owner.via = "trampoline"
    /\ owner.trashReg1 = race.original /\ owner.trashReg2 = race.slot
    /\ owner.resumedAt = race.original
    /\ ~RecordExists /\ ~race.overlap

(***************************************************************************)
(*                       Claims on the heap registry                       *)
(***************************************************************************)

\* C12: a call of IsGCInProgress that found the heap registry not
\* initialized returns false, a call of WaitForGCCompletion that found it
\* not initialized returns without touching the heap, and no call of either
\* violates the assertion g_pGCHeap != nullptr of GetGCHeap, in whatever
\* state of the registry the call is made.
C12_UninitializedRegistryIsSafe ==
    \A t \in GcCallers :
        /\ gc_caller[t].pc # "assertFailed"
        /\ (gc_caller[t].pc = "returned" /\ ~gc_caller[t].initialized)
               => (~gc_caller[t].result /\ ~gc_caller[t].touched
                   /\ gc_caller[t].pHeap = nullptr)
        /\ gc_caller[t].touched => gc_caller[t].pHeap = TheGCHeap

\* WaitForGCCompletion and IsGCInProgress have returned from an
\* uninitialized registry, which was initialized just afterwards.
C12_Witness ==
    /\ \E t \in GcCallers :
           /\ gc_caller[t].pc = "returned"
           /\ gc_caller[t].op = "WaitForGCCompletion"
           /\ ~gc_caller[t].initialized /\ ~gc_caller[t].touched
    /\ \E t \in GcCallers :
           /\ gc_caller[t].pc = "returned"
           /\ gc_caller[t].op = "IsGCInProgress"
           /\ ~gc_caller[t].initialized /\ ~gc_caller[t].result
    /\ g_pGCHeap = TheGCHeap

(***************************************************************************)
(*                    Claims on the write watch flag                       *)
(***************************************************************************)

FrameFlags == WordBits(mem.now[regs.now["sp"] + 24])
InHelper == fr_last.op \in {"push", "body"}

\* C15: the 64-bit flag word PUSH_COOP_PINVOKE_FRAME writes is exactly the
\* bits of x19 to x28 and the saved-SP bit: no scratch register bit, no FP
\* bit, no LR bit, none of the GCREF/BYREF bits of x0 and x1 and not the
\* thread abort bit.
C15_FrameFlagsAreDefault ==
    InHelper =>
        /\ FrameFlags = PTFF_SAVE_X19 \cup PTFF_SAVE_X20 \cup PTFF_SAVE_X21
               \cup PTFF_SAVE_X22 \cup PTFF_SAVE_X23 \cup PTFF_SAVE_X24
               \cup PTFF_SAVE_X25 \cup PTFF_SAVE_X26 \cup PTFF_SAVE_X27
               \cup PTFF_SAVE_X28 \cup PTFF_SAVE_SP
        /\ FrameFlags \cap PTFF_SAVE_ALL_SCRATCH = {}
        /\ FrameFlags \cap (PTFF_SAVE_FP \cup PTFF_SAVE_LR) = {}
        /\ FrameFlags \cap UpperWord(PTFF_X0_IS_GCREF_HI \cup
               PTFF_X0_IS_BYREF_HI \cup PTFF_X1_IS_GCREF_HI \cup
               PTFF_X1_IS_BYREF_HI \cup PTFF_THREAD_ABORT_HI) = {}
        /\ PTFF_THREAD_ABORT_BIT \notin FrameFlags

\* A helper has built its frame over stack words that held other bits.
C15_Witness ==
    /\ fr_last.op = "push"
    /\ WordBits(mem.entry[regs.now["sp"] + 24]) # FrameFlags
    /\ FrameFlags = DEFAULT_FRAME_SAVE_FLAGS

\* C16: once the frame has been built at helper entry, its thread field
\* (the word at offset 0x10) identifies the thread that runs the helper.
C16_FrameStoresThread ==
    InHelper => mem.now[regs.now["sp"] + 16] = tls_CurrentThread

\* C16, amended: once the frame has been built at helper entry, the word
\* reserved for the thread at offset 0x10 still holds what the stack held
\* there before; the macro has written the other fifteen words of the frame
\* and left trashReg pointing at the frame.
C16_ThreadFieldLeftAsFound ==
    fr_last.op = "push" =>
        /\ mem.now[regs.now["sp"] + 16] = mem.entry[regs.now["sp"] + 16]
        /\ \A a \in StackWords :
               mem.now[a] # mem.entry[a]
                   => (regs.now["sp"] <= a /\ a < regs.entry["sp"]
                       /\ a # regs.now["sp"] + 16)
        /\ regs.now[fr_last.trashReg] = regs.now["sp"]

\* A frame has been built over a stack word that did not hold the thread.
C16_Witness ==
    /\ fr_last.op = "push"
    /\ mem.now[regs.now["sp"] + 16] # tls_CurrentThread
    /\ mem.now[regs.now["sp"] + 24] = WordValue(DEFAULT_FRAME_SAVE_FLAGS)
    /\ mem.now[regs.now["sp"] + 112] = regs.entry["sp"]

\* C17: the SP the frame saves is sp as it was at helper entry, before the
\* 0x80 bytes of the frame were allocated, and POP_COOP_PINVOKE_FRAME after
\* PUSH_COOP_PINVOKE_FRAME leaves x19 to x28, fp, lr and sp as they were at
\* entry.
C17_PushPopRestoresRegisters ==
    /\ InHelper =>
           /\ mem.now[regs.now["sp"] + 112] = regs.entry["sp"]
           /\ regs.now["sp"] = regs.entry["sp"] - 128
    /\ fr_last.op = "pop" =>
           \A r \in PreservedRegs \cup {"fp", "lr", "sp"} :
               regs.now[r] = regs.entry[r]

\* A frame was popped right after it was pushed, and every register is
\* back, the trash register excepted.
C17_Witness ==
    /\ fr_last.op = "pop" /\ fr_last.immediate
    /\ regs.now["sp"] = regs.entry["sp"]
    /\ regs.now["x19"] = regs.entry["x19"]
    /\ regs.now["lr"] = regs.entry["lr"]
    /\ regs.now[fr_last.trashReg] # regs.entry[fr_last.trashReg]

(***************************************************************************)
(*                Claims on the shared allocation context                  *)
(***************************************************************************)

\* C18: with threads racing on the shared allocation context, under every
\* interleaving of the steps of their tryAllocate calls the ranges handed
\* out are pairwise disjoint and the bump pointer is never past
\* combined_limit; a thread that lost the compare-and-swap got no range.
C18_SharedClaimsDisjoint ==
    /\ \A i, j \in 1 .. Len(handed) :
           i < j => handed[i].base + handed[i].size <= handed[j].base
    /\ \A i \in 1 .. Len(handed) :
           handed[i].base + handed[i].size <= alloc_ptr
    /\ alloc_ptr <= combined_limit
    /\ \A t \in AllocThreads :
           sh_threads[t].lost =>
               /\ ~sh_threads[t].ok
               /\ sh_threads[t].size > 0 => alloc_ptr > sh_threads[t].old

\* Two threads loaded the same bump pointer; one claimed a non-empty range
\* and the other lost the race.
C18_Witness ==
    \E t, u \in AllocThreads :
        /\ sh_threads[t].pc = "done" /\ sh_threads[t].ok
        /\ sh_threads[t].size > 0
        /\ sh_threads[u].pc = "done" /\ sh_threads[u].lost
        /\ sh_threads[u].old = sh_threads[t].old

(***************************************************************************)
(*                Claims on the concurrent write watch                     *)
(***************************************************************************)

AllMarkersDone == \A t \in Markers : ww_threads.thread[t].pc = "idle"

\* C19: under every interleaving of the read, test and store of
\* SoftwareWriteWatchSetDirty and of the byte stores of
\* SoftwareWriteWatchSetDirtyRegion run by several threads, no table entry
\* goes from nonzero to zero, and once every call has finished the nonzero
\* entries are those a sequential execution of the calls leaves nonzero.
C19_SetOnlyUnderInterleaving ==
    /\ [][\A i \in Pages :
              g_sw_ww_table[i] # 0 => g_sw_ww_table'[i] # 0]_vars
    /\ [](AllMarkersDone
              => DirtySet(g_sw_ww_table) = DirtySet(ww_threads.sequential))

\* A thread has read a zero entry and is about to store to it, and another
\* thread, which has finished, dirtied the entry in between.
C19_Witness ==
    \E t, u \in Markers :
        /\ ww_threads.thread[t].pc = "store"
        /\ ww_threads.thread[u].pc = "idle"
        /\ g_sw_ww_table[ww_threads.thread[t].index] = DirtySentinel
        /\ DirtySet(g_sw_ww_table) = DirtySet(ww_threads.sequential)

(***************************************************************************)
(*                       Claims on the flag bit layout                     *)
(***************************************************************************)

PTFF_Preserved == {PTFF_SAVE_Flags[i] : i \in 1 .. 10}
PTFF_Scratch == {PTFF_SAVE_Flags[i] : i \in 12 .. 30}

\* C23: the flag bit layout is self-consistent.  Every one-register
\* PTFF_SAVE_* flag is a single bit of the low 32-bit word and no two are the
\* same bit; PTFF_SAVE_ALL_PRESERVED is exactly the union of the x19-x28
\* bits and PTFF_SAVE_ALL_SCRATCH exactly the union of the x0-x18 bits, and
\* neither contains PTFF_SAVE_SP, PTFF_SAVE_FP or PTFF_SAVE_LR; the
\* upper-word flags are distinct single bits; every TSF_* and
\* TrapThreadsFlags_* mask is 2^Bit of its position constant, 0x18 is
\* SuppressGcStress or'ed with DoNotTriggerGc, and PTFF_THREAD_ABORT_BIT is
\* 32 plus the position of PTFF_THREAD_ABORT_HI; so on every flag word a test
\* by position (tbz/tbnz) gives what the test by mask gives.
C23_BitLayoutConsistent ==
    /\ \A i \in DOMAIN PTFF_SAVE_Flags :
           /\ Cardinality(PTFF_SAVE_Flags[i]) = 1
           /\ PTFF_SAVE_Flags[i] \subseteq 0 .. 31
    /\ \A i, j \in DOMAIN PTFF_SAVE_Flags :
           i # j => PTFF_SAVE_Flags[i] # PTFF_SAVE_Flags[j]
    /\ PTFF_Preserved
           = {PTFF_SAVE_X19, PTFF_SAVE_X20, PTFF_SAVE_X21, PTFF_SAVE_X22,
              PTFF_SAVE_X23, PTFF_SAVE_X24, PTFF_SAVE_X25, PTFF_SAVE_X26,
              PTFF_SAVE_X27, PTFF_SAVE_X28}
    /\ PTFF_SAVE_Flags[12] = PTFF_SAVE_X0
    /\ PTFF_SAVE_Flags[30] = PTFF_SAVE_X18
    /\ PTFF_SAVE_ALL_PRESERVED = UNION PTFF_Preserved
    /\ PTFF_SAVE_ALL_SCRATCH = UNION PTFF_Scratch
    /\ (PTFF_SAVE_ALL_PRESERVED \cup PTFF_SAVE_ALL_SCRATCH)
           \cap (PTFF_SAVE_SP \cup PTFF_SAVE_FP \cup PTFF_SAVE_LR) = {}
    /\ \A i \in DOMAIN PTFF_HI_Flags :
           /\ Cardinality(PTFF_HI_Flags[i]) = 1
           /\ \A j \in DOMAIN PTFF_HI_Flags :
                  i # j => PTFF_HI_Flags[i] # PTFF_HI_Flags[j]
    /\ TSF_Attached = Pow2(TSF_Attached_Bit)
    /\ TSF_SuppressGcStress = Pow2(TSF_SuppressGcStress_Bit)
    /\ TSF_DoNotTriggerGc = Pow2(TSF_DoNotTriggerGc_Bit)
    /\ TrapThreadsFlags_AbortInProgress
           = Pow2(TrapThreadsFlags_AbortInProgress_Bit)
    /\ TrapThreadsFlags_TrapThreads = Pow2(TrapThreadsFlags_TrapThreads_Bit)
    /\ WordBits(TSF_SuppressGcStress__OR__TSF_DoNotTriggerGC)
           = WordBits(TSF_SuppressGcStress) \cup WordBits(TSF_DoNotTriggerGc)
    /\ \E b \in 0 .. 31 : /\ PTFF_THREAD_ABORT_HI = {b}
                          /\ PTFF_THREAD_ABORT_BIT = 32 + b
    /\ \A w \in FlagWords : \A t \in BitTests(w) :
           Tst(flag_word[w], t.mask) <=> Tbnz(flag_word[w], t.bit)
    /\ fl_last.op = "test" => (fl_last.byMask <=> fl_last.byBit)

\* The thread abort flag was or'ed into the flags of a frame pushed with
\* DEFAULT_FRAME_SAVE_FLAGS, and the test of bit PTFF_THREAD_ABORT_BIT found
\* it, as the test by mask did.
C23_Witness ==
    /\ fl_last.op = "test" /\ fl_last.word = "PTFF"
    /\ fl_last.bit = PTFF_THREAD_ABORT_BIT
    /\ fl_last.byBit /\ fl_last.byMask
    /\ flag_word["PTFF"]
           = DEFAULT_FRAME_SAVE_FLAGS \cup UpperWord(PTFF_THREAD_ABORT_HI)
    /\ flag_word["PTFF"] # DEFAULT_FRAME_SAVE_FLAGS

=============================================================================
